---- MODULE Spec2Model ----
(***************************************************************************)
(* Streaming transcript accumulator of the real-time translator            *)
(* (src/src/main.py, class TranslationAppPro) and the threads that drive   *)
(* it.  Text is a sequence of one-character strings, so that strip, split, *)
(* lower-casing and the ellipsis loop are computed as Python computes them. *)
(* Time is counted in tenths of a second.                                  *)
(***************************************************************************)
EXTENDS Integers, Sequences, FiniteSets, TLC

\* ------------------------------------------------------------------------
\* Python string primitives
\* ------------------------------------------------------------------------

UpperChars == <<"A","B","C","D","E","F","G","H","I","J","K","L","M",
                "N","O","P","Q","R","S","T","U","V","W","X","Y","Z">>

LowerChars == <<"a","b","c","d","e","f","g","h","i","j","k","l","m",
                "n","o","p","q","r","s","t","u","v","w","x","y","z">>

\* str.isspace for one character
IsSpace(c) == c = " "

\* upper-case letter -> lower-case letter
LowerOf ==
    [c \in {UpperChars[i] : i \in 1..Len(UpperChars)} |->
        LowerChars[CHOOSE i \in 1..Len(UpperChars) : UpperChars[i] = c]]

\* str.lower for one character
LowerChar(c) == IF c \in DOMAIN LowerOf THEN LowerOf[c] ELSE c

\* str.lower()
Lower(s) == [i \in 1..Len(s) |-> LowerChar(s[i])]

\* s[:-n]
DropLast(s, n) == IF Len(s) <= n THEN <<>> ELSE SubSeq(s, 1, Len(s) - n)

\* s[n:]
DropFirst(s, n) == IF Len(s) <= n THEN <<>> ELSE SubSeq(s, n + 1, Len(s))

\* s[-n:]
TakeLast(s, n) == IF Len(s) <= n THEN s ELSE SubSeq(s, Len(s) - n + 1, Len(s))

\* s[:n]
TakeFirst(s, n) == IF Len(s) <= n THEN s ELSE SubSeq(s, 1, n)

\* str.endswith(suffix)
EndsWith(s, suffix) ==
    /\ Len(suffix) <= Len(s)
    /\ SubSeq(s, Len(s) - Len(suffix) + 1, Len(s)) = suffix

\* index of the first non-whitespace character at or after i (Len(s) + 1 if none)
RECURSIVE FirstNonSpace(_, _)
FirstNonSpace(s, i) ==
    IF i > Len(s) THEN i
    ELSE IF IsSpace(s[i]) THEN FirstNonSpace(s, i + 1) ELSE i

\* index of the last non-whitespace character at or before i (0 if none)
RECURSIVE LastNonSpace(_, _)
LastNonSpace(s, i) ==
    IF i < 1 THEN 0
    ELSE IF IsSpace(s[i]) THEN LastNonSpace(s, i - 1) ELSE i

\* index of the first whitespace character at or after i (Len(s) + 1 if none)
RECURSIVE FirstSpace(_, _)
FirstSpace(s, i) ==
    IF i > Len(s) THEN i
    ELSE IF IsSpace(s[i]) THEN i ELSE FirstSpace(s, i + 1)

\* str.strip(): leading and trailing whitespace removed
Strip(s) ==
    LET lo == FirstNonSpace(s, 1)
        hi == LastNonSpace(s, Len(s))
    IN  IF lo > hi THEN <<>>
        ELSE IF lo = 1 /\ hi = Len(s) THEN s
        ELSE SubSeq(s, lo, hi)

\* str.rstrip(',.!?;:')
RECURSIVE RStripPunct(_)
RStripPunct(w) ==
    IF Len(w) > 0 /\ w[Len(w)] \in {",", ".", "!", "?", ";", ":"}
    THEN RStripPunct(DropLast(w, 1))
    ELSE w

\* str.split(): the maximal runs of non-whitespace characters, in order
RECURSIVE SplitFrom(_, _)
SplitFrom(s, i) ==
    LET a == FirstNonSpace(s, i)
        b == FirstSpace(s, a)
    IN  IF a > Len(s) THEN <<>>
        ELSE <<SubSeq(s, a, b - 1)>> \o SplitFrom(s, b)

Split(s) == SplitFrom(s, 1)

\* ' '.join(words)
RECURSIVE Join(_)
Join(words) ==
    IF Len(words) = 0 THEN <<>>
    ELSE IF Len(words) = 1 THEN words[1]
    ELSE words[1] \o <<" ">> \o Join(Tail(words))

\* set(words)
WordSet(words) == {words[i] : i \in 1..Len(words)}

Ellipsis3 == <<".", ".", ".">>

Ellipsis4 == <<".", ".", ".", ".">>

\* while t.endswith('...') or t.endswith('....'): t = t[:-3].strip()
RECURSIVE StripEllipsis(_)
StripEllipsis(t) ==
    IF EndsWith(t, Ellipsis3) \/ EndsWith(t, Ellipsis4)
    THEN StripEllipsis(Strip(DropLast(t, 3)))
    ELSE t

\* ------------------------------------------------------------------------
\* Program constants (src/src/main.py, TranslationAppPro.__init__)
\* ------------------------------------------------------------------------

\* self.max_recent_transcriptions = 10
MaxRecentTranscriptions == 10

\* self.similarity_threshold = 0.7, as a percentage
SimilarityThresholdPct == 70

\* self.sentence_timeout = 2.5 seconds, in tenths of a second
SentenceTimeout == 25

\* self.min_sentence_length = 50
MinSentenceLength == 50

\* "if len(complete_sentence) < 20" in on_transcription
MinEmitLength == 20

\* "_calculate_similarity(buffer, new_fragment) > 0.8" in _merge_fragments, as a percentage
MergeSimilarityPct == 80

\* ------------------------------------------------------------------------
\* Pure text functions of TranslationAppPro
\* ------------------------------------------------------------------------

\* faulty variant of CalculateSimilarity: no shortcut for identical strings,
\* and the union counts repeated words
CalculateSimilarityByWordCount(s1, s2) ==
    LET s1_clean == Strip(Lower(s1))
        s2_clean == Strip(Lower(s2))
        words1 == WordSet(Split(s1_clean))
        words2 == WordSet(Split(s2_clean))
        intersection == Cardinality(words1 \cap words2)
        union == Len(Split(s1_clean)) + Len(Split(s2_clean)) - intersection
    IN  IF s1_clean = <<>> \/ s2_clean = <<>> THEN <<0, 1>>
        ELSE IF words1 = {} \/ words2 = {} THEN <<0, 1>>
        ELSE IF union > 0 THEN <<intersection, union>> ELSE <<0, 1>>

\* _calculate_similarity: the ratio intersection/union as <<numerator, denominator>>
CalculateSimilarity(s1, s2) ==
    LET s1_clean == Strip(Lower(s1))
        s2_clean == Strip(Lower(s2))
        words1 == WordSet(Split(s1_clean))
        words2 == WordSet(Split(s2_clean))
        intersection == Cardinality(words1 \cap words2)
        union == Cardinality(words1 \cup words2)
    IN  IF s1_clean = <<>> \/ s2_clean = <<>> THEN <<0, 1>>
        ELSE IF s1_clean = s2_clean THEN <<1, 1>>
        ELSE IF words1 = {} \/ words2 = {} THEN <<0, 1>>
        ELSE IF union > 0 THEN <<intersection, union>> ELSE <<0, 1>>

\* faulty variant of RatioGreater: no ratio is great enough
RatioGreaterNever(r, pct) == 100 * r[1] > pct * r[2] /\ r[1] > r[2]

\* faulty variant of RatioGreater: compares with half the percentage
RatioGreaterThanHalf(r, pct) == 200 * r[1] > pct * r[2]

\* ratio > pct / 100
RatioGreater(r, pct) == 100 * r[1] > pct * r[2]

\* ratio >= pct / 100
RatioAtLeast(r, pct) == 100 * r[1] >= pct * r[2]

\* faulty variant of IsDuplicate: the threshold itself does not count
IsDuplicateAboveThreshold(text, recent) ==
    LET text_clean == Strip(Lower(text))
    IN  \E i \in 1..Len(recent) :
            RatioGreater(CalculateSimilarity(text_clean, recent[i]),
                         SimilarityThresholdPct)

\* _is_duplicate(text) with self.recent_transcriptions = recent
IsDuplicate(text, recent) ==
    LET text_clean == Strip(Lower(text))
    IN  \E i \in 1..Len(recent) :
            RatioAtLeast(CalculateSimilarity(text_clean, recent[i]),
                         SimilarityThresholdPct)

\* _is_sentence_complete
IsSentenceComplete(text) ==
    LET t == StripEllipsis(Strip(text))
    IN  /\ Strip(text) # <<>>
        /\ t # <<>>
        /\ t[Len(t)] \in {".", "!", "?", ";"}

\* word.lower().rstrip(',.!?;:')
WordKey(w) == RStripPunct(Lower(w))

\* the inner while of _clean_word_loops: the run length of words equal to words[i]
RECURSIVE RunCount(_, _, _)
RunCount(words, i, count) ==
    IF i + count <= Len(words) /\ WordKey(words[i + count]) = WordKey(words[i])
    THEN RunCount(words, i, count + 1)
    ELSE count

\* the outer while of _clean_word_loops, from position i (1-based)
RECURSIVE CleanFrom(_, _)
CleanFrom(words, i) ==
    IF i > Len(words) THEN <<>>
    ELSE LET count == RunCount(words, i, 1)
         IN  IF count >= 3
             THEN (IF i + 1 <= Len(words) THEN <<words[i], words[i + 1]>> ELSE <<words[i]>>)
                  \o CleanFrom(words, i + count)
             ELSE IF count = 2
             THEN <<words[i]>> \o CleanFrom(words, i + count)
             ELSE <<words[i]>> \o CleanFrom(words, i + 1)

\* faulty variant of CleanWordLoops: texts of fewer than 5 words are returned
\* as they are
CleanWordLoopsFromFive(text) ==
    LET words == Split(text)
    IN  IF Len(words) < 5 THEN text ELSE Join(CleanFrom(words, 1))

\* faulty variant of CleanWordLoops: texts of fewer than 3 words are cleaned too
CleanWordLoopsAlways(text) == Join(CleanFrom(Split(text), 1))

\* _clean_word_loops
CleanWordLoops(text) ==
    LET words == Split(text)
    IN  IF Len(words) < 3 THEN text ELSE Join(CleanFrom(words, 1))

Min2(a, b) == IF a < b THEN a ELSE b

Max2(a, b) == IF a > b THEN a ELSE b

\* buffer_words[-i:] == fragment_words[:i]
OverlapAt(buffer_words, fragment_words, i) ==
    TakeLast(buffer_words, i) = TakeFirst(fragment_words, i)

\* faulty variant of OverlapFirstScan: the scan stops one short of max_overlap
OverlapFirstScanExclusive(buffer_words, fragment_words) ==
    LET max_overlap == Min2(Len(buffer_words), Len(fragment_words))
        hits == {i \in 1..(max_overlap - 1) :
                    OverlapAt(buffer_words, fragment_words, i)}
    IN  IF hits = {} THEN 0 ELSE CHOOSE i \in hits : \A j \in hits : j <= i

\* faulty variant of OverlapFirstScan: the first match wins
OverlapFirstScanShortest(buffer_words, fragment_words) ==
    LET max_overlap == Min2(Len(buffer_words), Len(fragment_words))
        hits == {i \in 1..max_overlap : OverlapAt(buffer_words, fragment_words, i)}
    IN  IF hits = {} THEN 0 ELSE CHOOSE i \in hits : \A j \in hits : i <= j

\* first scan of _merge_fragments: for i in range(1, max_overlap + 1), last match wins
OverlapFirstScan(buffer_words, fragment_words) ==
    LET max_overlap == Min2(Len(buffer_words), Len(fragment_words))
        hits == {i \in 1..max_overlap : OverlapAt(buffer_words, fragment_words, i)}
    IN  IF hits = {} THEN 0 ELSE CHOOSE i \in hits : \A j \in hits : j <= i

\* second scan: for i in range(1, max_overlap), first match, max with the first scan, break
OverlapSecondScan(buffer_words, fragment_words, overlap_length) ==
    LET max_overlap == Min2(Len(buffer_words), Len(fragment_words))
        hits == {i \in 1..(max_overlap - 1) : OverlapAt(buffer_words, fragment_words, i)}
    IN  IF hits = {} THEN overlap_length
        ELSE Max2(overlap_length, CHOOSE i \in hits : \A j \in hits : i <= j)

\* _merge_fragments
MergeFragments(buffer, new_fragment) ==
    IF buffer = <<>> THEN CleanWordLoops(new_fragment)
    ELSE
    LET fragment == CleanWordLoops(new_fragment)
        buffer_words == Split(buffer)
        fragment_words == Split(fragment)
        overlap_length ==
            OverlapSecondScan(buffer_words, fragment_words,
                              OverlapFirstScan(buffer_words, fragment_words))
        merged ==
            IF overlap_length > 0
            THEN buffer \o <<" ">> \o Join(DropFirst(fragment_words, overlap_length))
            ELSE IF /\ Len(buffer_words) > 0 /\ Len(fragment_words) > 0
                    /\ buffer_words[Len(buffer_words)] = fragment_words[1]
                 THEN buffer \o <<" ">> \o Join(DropFirst(fragment_words, 1))
                 ELSE buffer \o <<" ">> \o fragment
    IN  IF RatioGreater(CalculateSimilarity(buffer, fragment), MergeSimilarityPct)
        THEN (IF Len(buffer) > Len(fragment) THEN buffer ELSE fragment)
        ELSE Strip(CleanWordLoops(merged))

\* ------------------------------------------------------------------------
\* The accumulator: the steps of on_transcription and stop_translation_process
\* ------------------------------------------------------------------------

\* Optional[float]: None is the empty sequence, a time t is <<t>>
None == <<>>

Some(t) == <<t>>

\* text.strip(), then the ellipsis loop (on_transcription, lines 658-660)
CleanFragment(text) == StripEllipsis(Strip(text))

\* faulty variant of IsExactDuplicate: the comparison is case-sensitive
IsExactDuplicateCaseSensitive(text_clean, buffer) == text_clean = Strip(buffer)

\* text_clean.lower() == self.sentence_buffer.lower().strip()
IsExactDuplicate(text_clean, buffer) == Lower(text_clean) = Strip(Lower(buffer))

\* the early returns of on_transcription: nothing is read or written after them
IsIgnored(text, buffer) ==
    \/ Strip(text) = <<>>
    \/ CleanFragment(text) = <<>>
    \/ IsExactDuplicate(CleanFragment(text), buffer)

\* faulty variant of StartTimer: the timer is never started
StartTimerNever(buffer, start_time, current_time) == start_time

\* faulty variant of StartTimer: every merged fragment restarts the timer
StartTimerAlways(buffer, start_time, current_time) == Some(current_time)

\* if not self.sentence_buffer: self.buffer_start_time = current_time
StartTimer(buffer, start_time, current_time) ==
    IF buffer = <<>> THEN Some(current_time) ELSE start_time

\* faulty variant of TimeoutReached: the time since the last fragment, which the call
\* has just set to current_time
TimeoutSinceLastFragment(start_time, current_time) ==
    /\ start_time # None
    /\ current_time - current_time > SentenceTimeout

\* self.buffer_start_time and (current_time - self.buffer_start_time) > self.sentence_timeout
TimeoutReached(start_time, current_time) ==
    /\ start_time # None
    /\ start_time[1] # 0
    /\ current_time - start_time[1] > SentenceTimeout

\* len(self.sentence_buffer) >= self.min_sentence_length
IsLongEnough(buffer) == Len(buffer) >= MinSentenceLength

\* faulty variant of ShouldProcess: only the timeout completes a sentence
ShouldProcessTimeoutOnly(buffer, start_time, current_time) ==
    TimeoutReached(start_time, current_time) /\ IsLongEnough(buffer)

\* is_complete or (timeout_reached and is_long_enough)
ShouldProcess(buffer, start_time, current_time) ==
    \/ IsSentenceComplete(buffer)
    \/ (TimeoutReached(start_time, current_time) /\ IsLongEnough(buffer))

\* complete_sentence: the buffer stripped, then the ellipsis loop (lines 691-695)
CompleteSentence(buffer) == StripEllipsis(Strip(buffer))

\* faulty variant of TooShort: only the empty sentence is too short
TooShortEmptyOnly(complete_sentence) == Len(complete_sentence) < 1

\* len(complete_sentence) < 20
TooShort(complete_sentence) == Len(complete_sentence) < MinEmitLength

\* faulty variant of PushRecent: beyond the maximum the newest entry is dropped
PushRecentEvictNewest(recent, complete_sentence) ==
    LET appended == Append(recent, Lower(complete_sentence))
    IN  IF Len(appended) > MaxRecentTranscriptions
        THEN SubSeq(appended, 1, Len(appended) - 1)
        ELSE appended

\* recent_transcriptions.append(complete_sentence.lower()), pop(0) beyond the maximum
PushRecent(recent, complete_sentence) ==
    LET appended == Append(recent, Lower(complete_sentence))
    IN  IF Len(appended) > MaxRecentTranscriptions THEN Tail(appended) ELSE appended

\* the three assignments that clear the accumulator
Cleared == [buffer |-> <<>>, start |-> None, lastfrag |-> None]

\* faulty variant of DiscardReset: the too-short branch returns without clearing the text
DiscardKeepsText(merged) == [buffer |-> merged, start |-> None, lastfrag |-> None]

\* the too-short branch of on_transcription (lines 700-702)
DiscardReset(merged) == Cleared

\* the end of on_transcription (lines 723-725)
EmitReset == Cleared

\* stop_translation_process (lines 476-478)
StopReset == Cleared

\* the condition of the stop-time flush (stop_translation_process, line 469)
HasPendingSentence(buffer) == Strip(buffer) # <<>> /\ Len(buffer) >= MinSentenceLength

\* the text the stop-time flush hands to process_translation (line 473)
PendingSentence(buffer) == buffer

\* ------------------------------------------------------------------------
\* Fragments delivered by the speech-to-text stage
\* ------------------------------------------------------------------------

\* ""
FragEmpty ==
    <<>>

\* " "
FragBlank ==
    <<" ">>

\* "..."
FragDots ==
    <<".",".",".">>

\* "we walked to the old market"
FragWalked ==
    <<"w","e"," ","w","a","l","k","e","d"," ","t","o"," ","t","h","e",
      " ","o","l","d"," ","m","a","r","k","e","t">>

\* "the old market and bought fresh bread"
FragMarket ==
    <<"t","h","e"," ","o","l","d"," ","m","a","r","k","e","t"," ","a",
      "n","d"," ","b","o","u","g","h","t"," ","f","r","e","s","h"," ",
      "b","r","e","a","d">>

\* "and then went home."
FragHome ==
    <<"a","n","d"," ","t","h","e","n"," ","w","e","n","t"," ","h","o",
      "m","e",".">>

\* "Ok."
FragOk ==
    <<"O","k",".">>

\* "WE WALKED TO THE OLD MARKET"
FragShout ==
    <<"W","E"," ","W","A","L","K","E","D"," ","T","O"," ","T","H","E",
      " ","O","L","D"," ","M","A","R","K","E","T">>

\* "and so on... on"
FragSoOn ==
    <<"a","n","d"," ","s","o"," ","o","n",".",".","."," ","o","n">>

\* "really...."
FragReally ==
    <<"r","e","a","l","l","y",".",".",".",".">>

\* "...."
FragFourDots ==
    <<".",".",".",".">>

\* what the speech-to-text stage may deliver in one session: fragments that
\* complete by punctuation, fragments that only time out, fragments with
\* ellipses and word loops
Feeds ==
    {{FragEmpty, FragWalked, FragHome, FragOk},
     {FragBlank, FragWalked, FragMarket, FragShout},
     {FragDots, FragWalked, FragMarket, FragSoOn, FragReally},
     {FragFourDots, FragWalked}}

\* ------------------------------------------------------------------------
\* Bounds of the model
\* ------------------------------------------------------------------------

\* no fragment is delivered to a buffer longer than this
MaxBufferLen == 60

\* no fragment is delivered once this many sentences are in the history
MaxEmissions == 1

\* the clock stops here
MaxClock == 51

\* the first value time.time() returns
StartClock == 1

\* time passes in steps of one sentence_timeout
TickLen == SentenceTimeout

\* ------------------------------------------------------------------------
\* AudioMixer (audio_mixer.py): volumes are percentages, a float32 sample is
\* a whole number of hundredths
\* ------------------------------------------------------------------------

\* MixerConfig.original_volume = 0.3, as a percentage
DefaultOriginalVolume == 30

\* MixerConfig.translation_volume = 1.0, as a percentage
DefaultTranslationVolume == 100

\* MixerConfig.sample_rate
DefaultSampleRate == 16000

\* "if max_val > 32767" and "32767 / max_val"
Int16Max == 32767

\* MixerConfig()
MixerConfig ==
    [original_volume |-> DefaultOriginalVolume,
     translation_volume |-> DefaultTranslationVolume,
     sample_rate |-> DefaultSampleRate]

\* faulty variant of ClampVolume: the value is stored as it is
ClampVolumeNot(volume) == volume

\* max(0.0, min(1.0, volume))
ClampVolume(volume) ==
    LET upper == IF volume < 100 THEN volume ELSE 100
    IN  IF upper > 0 THEN upper ELSE 0

\* "if volume is not None: self.config.volume = max(0.0, min(1.0, volume))"
SetVolume(current, volume) ==
    IF volume = None THEN current ELSE ClampVolume(volume[1])

\* the binary digits of a natural number, most significant first
RECURSIVE BitsOf(_)
BitsOf(n) == IF n = 0 THEN <<>> ELSE Append(BitsOf(n \div 2), n % 2)

\* the natural number with the first k of these binary digits
RECURSIVE IntOfBits(_, _)
IntOfBits(bits, k) ==
    IF k = 0 THEN 0 ELSE 2 * IntOfBits(bits, k - 1) + bits[k]

\* binary digits plus one
IncBits(bits) ==
    LET zeros == {i \in 1..Len(bits) : bits[i] = 0}
        last_zero == CHOOSE i \in zeros : \A j \in zeros : j <= i
    IN  IF zeros = {}
        THEN [i \in 1..(Len(bits) + 1) |-> IF i = 1 THEN 1 ELSE 0]
        ELSE [i \in 1..Len(bits) |->
                 IF i < last_zero THEN bits[i]
                 ELSE IF i = last_zero THEN 1 ELSE 0]

\* a Python float (IEEE 754 double) that is not negative: bits * 2^exp with
\* at most 53 binary digits; round to nearest, ties to even, where "up" says
\* that the discarded part calls for the next digit sequence
RoundedFloat(bits, exp, above_half, exactly_half) ==
    LET up == above_half \/ (exactly_half /\ bits[Len(bits)] = 1)
        inc == IncBits(bits)
    IN  IF ~up THEN [bits |-> bits, exp |-> exp]
        ELSE IF Len(inc) > Len(bits)
             THEN [bits |-> SubSeq(inc, 1, Len(bits)), exp |-> exp + 1]
             ELSE [bits |-> inc, exp |-> exp]

\* the digits of a / b after the digits "bits": r is the remainder so far and
\* places the number of digits after the binary point; a quotient below the
\* smallest float is 0.0
RECURSIVE DivideFrom(_, _, _, _)
DivideFrom(bits, places, r, b) ==
    IF places > 1074 THEN [bits |-> <<>>, exp |-> 0]
    ELSE IF Len(bits) = 53
    THEN RoundedFloat(bits, 0 - places, 2 * r > b, 2 * r = b)
    ELSE LET digit == IF 2 * r >= b THEN 1 ELSE 0
         IN  DivideFrom(IF bits = <<>> /\ digit = 0 THEN <<>> ELSE Append(bits, digit),
                        places + 1, 2 * r - digit * b, b)

\* a / b for integers a >= 0, b > 0 (Python true division)
TrueDivide(a, b) ==
    IF a = 0 THEN [bits |-> <<>>, exp |-> 0]
    ELSE DivideFrom(BitsOf(a \div b), 0, a % b, b)

\* the digits of (the first k digits of bits) * n + carry, n a natural number
RECURSIVE TimesFrom(_, _, _, _)
TimesFrom(bits, k, n, carry) ==
    IF carry = 0 /\ k = 0 THEN <<>>
    ELSE LET t == (IF k = 0 THEN 0 ELSE bits[k] * n) + carry
         IN  Append(TimesFrom(bits, IF k = 0 THEN 0 ELSE k - 1, n, t \div 2), t % 2)

\* x * n for a float x and an integer n > 0
FloatTimes(x, n) ==
    LET product == TimesFrom(x.bits, Len(x.bits), n, 0)
        extra == Len(product) - 53
        rest == SubSeq(product, 54, Len(product))
    IN  IF extra <= 0 THEN [bits |-> product, exp |-> x.exp]
        ELSE RoundedFloat(SubSeq(product, 1, 53), x.exp + extra,
                          rest[1] = 1 /\ \E i \in 2..Len(rest) : rest[i] = 1,
                          rest[1] = 1 /\ \A i \in 2..Len(rest) : rest[i] = 0)

\* 2^n
RECURSIVE PowerOfTwo(_)
PowerOfTwo(n) == IF n = 0 THEN 1 ELSE 2 * PowerOfTwo(n - 1)

\* int(x) for a float x >= 0
FloatToInt(x) ==
    IF x.exp >= 0 THEN IntOfBits(x.bits, Len(x.bits)) * PowerOfTwo(x.exp)
    ELSE IF Len(x.bits) + x.exp <= 0 THEN 0
         ELSE IntOfBits(x.bits, Len(x.bits) + x.exp)

\* int((delay_ms / 1000) * self.config.sample_rate)
DelaySamples(delay_ms, sample_rate) ==
    FloatToInt(FloatTimes(TrueDivide(delay_ms, 1000), sample_rate))

\* abs()
Abs(x) == IF x < 0 THEN 0 - x ELSE x

\* float32 holds this volume, and so its product with an int16 sample, exactly
IsExactVolume(volume) == volume % 25 = 0

\* samples.astype(np.float32) * volume: one float32 sample is the value in
\* hundredths and whether float32 holds exactly that value
ScaledSample(sample, volume) ==
    [value |-> sample * volume, exact |-> sample = 0 \/ IsExactVolume(volume)]

\* 0.0, what np.pad(mode='constant') and np.zeros fill in
Silence == [value |-> 0, exact |-> TRUE]

\* the sum of two float32 samples
SumOfSamples(a, b) == [value |-> a.value + b.value, exact |-> a.exact /\ b.exact]

\* sample i of the volume-scaled array after np.pad(..., (0, max_len - len), mode='constant')
PaddedSample(samples, volume, i) ==
    IF i <= Len(samples) THEN ScaledSample(samples[i], volume) ELSE Silence

\* An array is its size and its samples "at" the indices 1..size that were
\* written; the other samples are the zeros the array was created with.

\* mixed = original_attenuated + translation_amplified of mix_audio_arrays
MixedSamples(original, translation, config) ==
    LET max_len == IF Len(original) > Len(translation)
                   THEN Len(original) ELSE Len(translation)
    IN  [size |-> max_len,
         at |-> [i \in 1..max_len |->
                    SumOfSamples(PaddedSample(original, config.original_volume, i),
                                 PaddedSample(translation, config.translation_volume, i))]]

\* faulty variant of OverlaidSamples: the translation replaces the original
\* where the two overlap
OverlaidSamplesReplacing(original, translation, delay_samples, config) ==
    LET total_length == IF Len(original) > delay_samples + Len(translation)
                        THEN Len(original) ELSE delay_samples + Len(translation)
        translated == (delay_samples + 1)..(delay_samples + Len(translation))
    IN  [size |-> total_length,
         at |-> [i \in (1..Len(original)) \cup translated |->
                    IF i \in translated
                    THEN ScaledSample(translation[i - delay_samples],
                                      config.translation_volume)
                    ELSE ScaledSample(original[i], config.original_volume)]]

\* mixed of overlay_translation: zeros(total_length), plus the original from
\* index 0, plus the translation from index delay_samples
OverlaidSamples(original, translation, delay_samples, config) ==
    LET total_length == IF Len(original) > delay_samples + Len(translation)
                        THEN Len(original) ELSE delay_samples + Len(translation)
        translated == (delay_samples + 1)..(delay_samples + Len(translation))
    IN  [size |-> total_length,
         at |-> [i \in (1..Len(original)) \cup translated |->
                    SumOfSamples(
                        IF i <= Len(original)
                        THEN ScaledSample(original[i], config.original_volume)
                        ELSE Silence,
                        IF i \in translated
                        THEN ScaledSample(translation[i - delay_samples],
                                          config.translation_volume)
                        ELSE Silence)]]

\* np.abs(mixed).max() in hundredths, for an array that is not empty
MaxVal(mixed) ==
    LET magnitudes == {Abs(mixed.at[i].value) : i \in DOMAIN mixed.at} \cup {0}
    IN  CHOOSE m \in magnitudes : \A other \in magnitudes : other <= m

\* "if max_val > 32767"
IsNormalized(max_val) == max_val > Int16Max * 100

\* <<q, r>> with a * b = q * c + r and 0 <= r < c, for 0 <= a <= c
RECURSIVE TimesOver(_, _, _)
TimesOver(a, b, c) ==
    IF b = 0 THEN <<0, 0>>
    ELSE LET half == TimesOver(a, b \div 2, c)
             r == 2 * half[2] + (b % 2) * a
         IN  <<2 * half[1] + r \div c, r % c>>

\* faulty variant of Normalized: the sample is clipped at 32767
NormalizedByClipping(sample, max_val) ==
    IF IsNormalized(max_val) /\ Abs(sample.value) > Int16Max * 100
    THEN [whole |-> Int16Max, part |-> 0, unit |-> 100, exact |-> TRUE]
    ELSE [whole |-> Abs(sample.value) \div 100, part |-> Abs(sample.value) % 100,
          unit |-> 100, exact |-> sample.exact]

\* the magnitude of one sample after "mixed = mixed * (32767 / max_val)", or
\* as it was without it: whole + part / unit
Normalized(sample, max_val) ==
    IF IsNormalized(max_val) /\ sample.value # 0
    THEN LET scaled == TimesOver(Abs(sample.value), Int16Max, max_val)
         IN  [whole |-> scaled[1], part |-> scaled[2], unit |-> max_val,
              exact |-> FALSE]
    ELSE [whole |-> Abs(sample.value) \div 100, part |-> Abs(sample.value) % 100,
          unit |-> 100, exact |-> sample.exact]

\* astype(np.int16) of a float32 magnitude: the fraction is cut off. The
\* float32 arithmetic before it (the volume as float32, the product, the sum,
\* the quotient 32767 / max_val and the product with it, each rounded) leaves
\* the value within 1/32 of whole + part / unit, so a value that close to a
\* whole number is cut off to either neighbour.
Int16Magnitudes(m) ==
    {m.whole}
    \cup (IF ~m.exact /\ m.whole > 0 /\ 32 * m.part < m.unit
          THEN {m.whole - 1} ELSE {})
    \cup (IF ~m.exact /\ 32 * (m.unit - m.part) <= m.unit
          THEN {m.whole + 1} ELSE {})

\* the int16 values sample i of mixed.astype(np.int16) can have
Int16Values(sample, max_val) ==
    {(IF sample.value < 0 THEN 0 - v ELSE v) :
        v \in Int16Magnitudes(Normalized(sample, max_val))}

\* the arrays mixed.astype(np.int16) can be
Int16Arrays(mixed, max_val) ==
    LET open == {i \in DOMAIN mixed.at :
                    Cardinality(Int16Values(mixed.at[i], max_val)) > 1}
        low(i) == CHOOSE v \in Int16Values(mixed.at[i], max_val) :
                      \A w \in Int16Values(mixed.at[i], max_val) : Abs(v) <= Abs(w)
        high(i) == CHOOSE v \in Int16Values(mixed.at[i], max_val) :
                      \A w \in Int16Values(mixed.at[i], max_val) : Abs(w) <= Abs(v)
    IN  {[size |-> mixed.size,
          at |-> [i \in DOMAIN mixed.at |-> IF i \in up THEN high(i) ELSE low(i)]] :
            up \in SUBSET open}

\* sample i of an array
SampleAt(array, i) == IF i \in DOMAIN array.at THEN array.at[i] ELSE 0

\* ------------------------------------------------------------------------
\* State
\* ------------------------------------------------------------------------

VARIABLES
    sentence_buffer,        \* self.sentence_buffer
    buffer_start_time,      \* self.buffer_start_time
    last_fragment_time,     \* self.last_fragment_time
    recent_transcriptions,  \* self.recent_transcriptions
    is_translating,         \* self.is_translating
    clock,                  \* what time.time() returns now
    feed,                   \* the fragments this session's speech produces
    last,                   \* history variable: the last operation, its input,
                            \* the state it started from and what it handed to
                            \* process_translation
    stt_thread,             \* the STT processing thread inside on_transcription:
                            \* its position and its local variables
    ui_thread,              \* the UI thread inside stop_translation_process
    audio_buffered,         \* FastSTTHandler.audio_buffer holds a full window
    buffer_version,         \* history variable: how often sentence_buffer changed
    emit_log,               \* history variable: the calls of process_translation,
                            \* each with the buffer version its text was read from
    call,                   \* the last call of one of the text functions: its
                            \* name, its arguments and what it returned
    twin,                   \* a second accumulator that receives the same calls
    mixer,                  \* AudioMixer.config: the volumes as percentages and
                            \* the sample rate
    workers,                \* the translation threads process_translation started
    tts,                    \* TTSHandler: tts_queue and _recent_texts
    fast_stt,               \* FastSTTHandler: the samples in audio_buffer and
                            \* the position of _processing_loop
    metrics                 \* PerformanceMetrics: the run counters, _lock, the
                            \* threads inside record_pipeline_run and the caller
                            \* of get_summary

vars == <<sentence_buffer, buffer_start_time, last_fragment_time,
          recent_transcriptions, is_translating, clock, feed, last,
          stt_thread, ui_thread, audio_buffered, buffer_version, emit_log,
          call, twin, mixer, workers, tts, fast_stt, metrics>>

\* the variables of the step-by-step threads
threadVars == <<stt_thread, ui_thread, audio_buffered, buffer_version, emit_log>>

\* a thread outside on_transcription / stop_translation_process
IdleThread == [pc |-> "idle"]

\* the accumulator fields as a record
Snapshot ==
    [buffer |-> sentence_buffer, start |-> buffer_start_time,
     lastfrag |-> last_fragment_time, recent |-> recent_transcriptions,
     translating |-> is_translating]

\* no text function has been called yet
NoCall ==
    [fn |-> "none", args |-> <<>>, result |-> <<>>, again |-> FALSE,
     pre |-> [buffer |-> <<>>, start |-> None, lastfrag |-> None,
              recent |-> <<>>, translating |-> FALSE]]

\* no translation thread has been started
NoWorkers == [handler |-> TRUE, threads |-> <<>>]

\* TTSHandler.__init__: tts_queue = queue.Queue(), _recent_texts = []
NoTts == [handler |-> TRUE, enabled |-> FALSE, tts_queue |-> <<>>,
          recent_texts |-> <<>>]

\* the threads of _translate_and_display that call record_pipeline_run
RecordingThreads == {1, 2}

\* FastSTTHandler after construction. audio_buffer holds the samples
\* from+1..to of the captured stream; loop is _processing_loop with its local
\* buffer_size; window is audio_to_process and retained is audio_buffer as
\* the loop left it when it took that window
NoStt ==
    [audio_buffer |-> [from |-> 0, to |-> 0],
     loop |-> [pc |-> "check", buffer_size |-> 0],
     window |-> [from |-> 0, to |-> 0],
     retained |-> [from |-> 0, to |-> 0]]

\* PerformanceMetrics after construction. _lock is 0 when free and else the
\* thread that holds it; recording[t] is thread t inside record_pipeline_run;
\* summary is the dictionary a caller of get_summary is building
NoMetrics ==
    [total_runs |-> 0, successful_runs |-> 0, failed_runs |-> 0, _lock |-> 0,
     recording |-> [t \in RecordingThreads |-> [pc |-> "idle", success |-> TRUE]],
     summary |-> [pc |-> "idle", total_runs |-> 0, successful_runs |-> 0,
                  failed_runs |-> 0, success_rate_pct |-> <<0, 1>>]]

\* the second accumulator before any call
NoTwin ==
    [buffer |-> <<>>, start |-> None, lastfrag |-> None, recent |-> <<>>,
     out |-> <<>>]

Init ==
    /\ sentence_buffer = <<>>
    /\ buffer_start_time = None
    /\ last_fragment_time = None
    /\ recent_transcriptions = <<>>
    /\ is_translating = FALSE
    /\ clock = StartClock
    /\ feed \in Feeds
    /\ last = [op |-> "init", text |-> <<>>, now |-> StartClock, failed |-> FALSE,
               pre |-> [buffer |-> <<>>, start |-> None, lastfrag |-> None,
                        recent |-> <<>>, translating |-> FALSE],
               out |-> <<>>]
    /\ stt_thread = IdleThread
    /\ ui_thread = IdleThread
    /\ audio_buffered = FALSE
    /\ buffer_version = 0
    /\ emit_log = <<>>
    /\ call = NoCall
    /\ mixer = MixerConfig
    /\ workers = NoWorkers
    /\ tts = NoTts
    /\ fast_stt = NoStt
    /\ metrics = NoMetrics
    /\ twin = NoTwin

\* time passes
Tick ==
    /\ clock + TickLen <= MaxClock
    /\ clock' = clock + TickLen
    /\ UNCHANGED <<sentence_buffer, buffer_start_time, last_fragment_time,
                   recent_transcriptions, is_translating, feed, call, twin, last, threadVars, mixer, workers, tts, fast_stt, metrics>>

\* start_translation_process; start_fails: starting the audio input raised
StartTranslationProcess(start_fails) ==
    /\ is_translating' = IF is_translating THEN TRUE ELSE ~start_fails
    /\ last' = [op |-> "start", text |-> <<>>, now |-> clock,
                failed |-> (~is_translating /\ start_fails),
                pre |-> Snapshot, out |-> <<>>]
    /\ UNCHANGED <<sentence_buffer, buffer_start_time, last_fragment_time,
                   recent_transcriptions, clock, feed, call, twin, threadVars, mixer, workers, tts, fast_stt, metrics>>

\* the accumulator fields that on_transcription and stop_translation_process clear
Accumulator ==
    [buffer |-> sentence_buffer, start |-> buffer_start_time,
     lastfrag |-> last_fragment_time]

\* faulty variant of EmitSentence: a sentence that _is_duplicate finds in the
\* history is dropped instead of emitted
EmitSentenceUnlessDuplicate(complete_sentence, recent) ==
    IF IsDuplicate(complete_sentence, recent)
    THEN [acc |-> Cleared, recent |-> recent, out |-> <<>>]
    ELSE [acc |-> Cleared,
          recent |-> PushRecent(recent, complete_sentence),
          out |-> <<complete_sentence>>]

\* the end of on_transcription (lines 705-725): the sentence is recorded in
\* the history, handed to process_translation, and the accumulator is cleared
EmitSentence(complete_sentence, recent) ==
    [acc |-> EmitReset,
     recent |-> PushRecent(recent, complete_sentence),
     out |-> <<complete_sentence>>]

\* on_transcription(text) called at current_time on accumulator acc with
\* history recent, run to its return: the accumulator and the history it
\* leaves, and what it handed to process_translation
AfterOnTranscription(acc, recent, text, current_time) ==
    LET text_clean == CleanFragment(text)
        start_time == StartTimer(acc.buffer, acc.start, current_time)
        merged == MergeFragments(acc.buffer, text_clean)
        complete_sentence == CompleteSentence(merged)
    IN  IF IsIgnored(text, acc.buffer)
        THEN [acc |-> acc, recent |-> recent, out |-> <<>>]
        ELSE IF ~ShouldProcess(merged, start_time, current_time)
        THEN [acc |-> [buffer |-> merged, start |-> start_time,
                       lastfrag |-> Some(current_time)],
              recent |-> recent, out |-> <<>>]
        ELSE IF TooShort(complete_sentence)
        THEN [acc |-> DiscardReset(merged), recent |-> recent, out |-> <<>>]
        ELSE EmitSentence(complete_sentence, recent)

\* faulty variant of AfterStop: stopping also forgets the history
AfterStopClearsHistory(acc, recent, translating, audio_fails) ==
    IF ~translating
    THEN [acc |-> acc, recent |-> recent, translating |-> translating,
          failed |-> FALSE, out |-> <<>>]
    ELSE IF audio_fails
    THEN [acc |-> acc, recent |-> recent, translating |-> FALSE,
          failed |-> TRUE, out |-> <<>>]
    ELSE [acc |-> StopReset, recent |-> <<>>, translating |-> FALSE,
          failed |-> FALSE,
          out |-> IF HasPendingSentence(acc.buffer)
                  THEN <<PendingSentence(acc.buffer)>>
                  ELSE <<>>]

\* stop_translation_process called on accumulator acc with history recent,
\* run to its return; audio_fails: stopping the audio input
\* (audio_handler.stop_recording) raised, which the except clause at the end
\* of the method catches
AfterStop(acc, recent, translating, audio_fails) ==
    IF ~translating
    THEN [acc |-> acc, recent |-> recent, translating |-> translating,
          failed |-> FALSE, out |-> <<>>]
    ELSE IF audio_fails
    THEN [acc |-> acc, recent |-> recent, translating |-> FALSE,
          failed |-> TRUE, out |-> <<>>]
    ELSE [acc |-> StopReset, recent |-> recent, translating |-> FALSE,
          failed |-> FALSE,
          out |-> IF HasPendingSentence(acc.buffer)
                  THEN <<PendingSentence(acc.buffer)>>
                  ELSE <<>>]

\* the effect of on_transcription(text) on the fields of the application
OnTranscriptionRun(text) ==
    \E after \in {AfterOnTranscription(Accumulator, recent_transcriptions, text, clock)} :
        /\ sentence_buffer' = after.acc.buffer
        /\ buffer_start_time' = after.acc.start
        /\ last_fragment_time' = after.acc.lastfrag
        /\ recent_transcriptions' = after.recent
        /\ last' = [op |-> "on_transcription", text |-> text,
                    now |-> clock, failed |-> FALSE,
                    pre |-> Snapshot, out |-> after.out]
        /\ UNCHANGED <<is_translating, clock, feed>>

\* the effect of stop_translation_process on the fields of the application
StopRun(audio_fails) ==
    \E after \in {AfterStop(Accumulator, recent_transcriptions, is_translating,
                            audio_fails)} :
        /\ sentence_buffer' = after.acc.buffer
        /\ buffer_start_time' = after.acc.start
        /\ last_fragment_time' = after.acc.lastfrag
        /\ recent_transcriptions' = after.recent
        /\ is_translating' = after.translating
        /\ last' = [op |-> "stop", text |-> <<>>, now |-> clock,
                    failed |-> after.failed, pre |-> Snapshot, out |-> after.out]
        /\ UNCHANGED <<clock, feed>>

\* on_transcription(text), run to its return
OnTranscription(text) ==
    /\ Len(sentence_buffer) <= MaxBufferLen
    /\ Len(recent_transcriptions) < MaxEmissions
    /\ OnTranscriptionRun(text)
    /\ UNCHANGED <<call, twin, threadVars, mixer, workers, tts, fast_stt, metrics>>

\* stop_translation_process, run to its return
StopTranslationProcess(audio_fails) ==
    /\ StopRun(audio_fails)
    /\ UNCHANGED <<call, twin, threadVars, mixer, workers, tts, fast_stt, metrics>>

Next ==
    \/ Tick
    \/ \E start_fails \in BOOLEAN : StartTranslationProcess(start_fails)
    \/ \E text \in feed : OnTranscription(text)
    \/ \E audio_fails \in BOOLEAN : StopTranslationProcess(audio_fails)

Spec == Init /\ [][Next]_vars

\* ------------------------------------------------------------------------
\* A long session: enough sentences to fill recent_transcriptions and evict
\* from it.  Every call of process_translation is logged.
\* ------------------------------------------------------------------------

\* "Then We Went Home Again."
FragAgain ==
    <<"T","h","e","n"," ","W","e"," ","W","e","n","t"," ","H","o","m",
      "e"," ","A","g","a","i","n",".">>

HistoryFeed == {FragWalked, FragAgain}

\* no fragment is delivered once this many sentences were emitted
MaxLogged == 11

InitHistory ==
    /\ sentence_buffer = <<>>
    /\ buffer_start_time = None
    /\ last_fragment_time = None
    /\ recent_transcriptions = <<>>
    /\ is_translating = FALSE
    /\ clock = StartClock
    /\ feed = HistoryFeed
    /\ last = [op |-> "init", text |-> <<>>, now |-> StartClock, failed |-> FALSE,
               pre |-> [buffer |-> <<>>, start |-> None, lastfrag |-> None,
                        recent |-> <<>>, translating |-> FALSE],
               out |-> <<>>]
    /\ stt_thread = IdleThread
    /\ ui_thread = IdleThread
    /\ audio_buffered = FALSE
    /\ buffer_version = 0
    /\ emit_log = <<>>
    /\ call = NoCall
    /\ mixer = MixerConfig
    /\ workers = NoWorkers
    /\ tts = NoTts
    /\ fast_stt = NoStt
    /\ metrics = NoMetrics
    /\ twin = NoTwin

\* the calls of process_translation made by an operation that handed out to it
LogEmissions(by, out) ==
    emit_log' = IF out = <<>> THEN emit_log
                ELSE Append(emit_log, [by |-> by, text |-> out[1],
                                       version |-> buffer_version])

\* the speaker alternates between a sentence that arrives as one fragment and
\* a sentence that arrives as two
SpokenNext ==
    IF sentence_buffer = <<>> /\ Len(emit_log) % 2 = 1 THEN FragWalked ELSE FragAgain

\* on_transcription(text), run to its return, logged
LoggedOnTranscription(text) ==
    /\ Len(emit_log) < MaxLogged
    /\ text = SpokenNext
    /\ OnTranscriptionRun(text)
    /\ LogEmissions("completion", last'.out)
    /\ UNCHANGED <<call, twin, stt_thread, ui_thread, audio_buffered, buffer_version, mixer, workers, tts, fast_stt, metrics>>

\* stop_translation_process, run to its return, logged
LoggedStop(audio_fails) ==
    /\ StopRun(audio_fails)
    /\ LogEmissions("flush", last'.out)
    /\ UNCHANGED <<call, twin, stt_thread, ui_thread, audio_buffered, buffer_version, mixer, workers, tts, fast_stt, metrics>>

NextHistory ==
    \/ \E start_fails \in BOOLEAN : StartTranslationProcess(start_fails)
    \/ \E text \in feed : LoggedOnTranscription(text)
    \/ \E audio_fails \in BOOLEAN : LoggedStop(audio_fails)

SpecHistory == InitHistory /\ [][NextHistory]_vars

\* ------------------------------------------------------------------------
\* Two applications that receive the same calls at the same times.  They
\* start with the same (empty) buffer and timestamps; the second one has
\* already emitted a sentence, which is in its history.
\* ------------------------------------------------------------------------

\* "we walked to the old market and then went home.", as on_transcription
\* records it after emitting it
SentenceWalkedHome == FragWalked \o <<" ">> \o FragHome

\* the accumulator fields of the second application
TwinAccumulator ==
    [buffer |-> twin.buffer, start |-> twin.start, lastfrag |-> twin.lastfrag]

InitTwin ==
    /\ sentence_buffer = <<>>
    /\ buffer_start_time = None
    /\ last_fragment_time = None
    /\ recent_transcriptions = <<>>
    /\ is_translating = FALSE
    /\ clock = StartClock
    /\ feed \in Feeds
    /\ last = [op |-> "init", text |-> <<>>, now |-> StartClock, failed |-> FALSE,
               pre |-> [buffer |-> <<>>, start |-> None, lastfrag |-> None,
                        recent |-> <<>>, translating |-> FALSE],
               out |-> <<>>]
    /\ stt_thread = IdleThread
    /\ ui_thread = IdleThread
    /\ audio_buffered = FALSE
    /\ buffer_version = 0
    /\ emit_log = <<>>
    /\ call = NoCall
    /\ mixer = MixerConfig
    /\ workers = NoWorkers
    /\ tts = NoTts
    /\ fast_stt = NoStt
    /\ metrics = NoMetrics
    /\ twin = [buffer |-> <<>>, start |-> None, lastfrag |-> None,
               recent |-> <<SentenceWalkedHome>>, out |-> <<>>]

\* on_transcription(text) in both applications, run to its return
TwinOnTranscription(text) ==
    /\ Len(sentence_buffer) <= MaxBufferLen
    /\ Len(recent_transcriptions) < MaxEmissions
    /\ OnTranscriptionRun(text)
    /\ \E after \in {AfterOnTranscription(TwinAccumulator, twin.recent, text, clock)} :
           twin' = [buffer |-> after.acc.buffer, start |-> after.acc.start,
                    lastfrag |-> after.acc.lastfrag, recent |-> after.recent,
                    out |-> after.out]
    /\ UNCHANGED <<call, threadVars, mixer, workers, tts, fast_stt, metrics>>

\* stop_translation_process in both applications, run to its return
TwinStop(audio_fails) ==
    /\ StopRun(audio_fails)
    /\ \E after \in {AfterStop(TwinAccumulator, twin.recent, is_translating,
                               audio_fails)} :
           twin' = [buffer |-> after.acc.buffer, start |-> after.acc.start,
                    lastfrag |-> after.acc.lastfrag, recent |-> after.recent,
                    out |-> after.out]
    /\ UNCHANGED <<call, threadVars, mixer, workers, tts, fast_stt, metrics>>

NextTwin ==
    \/ Tick
    \/ \E start_fails \in BOOLEAN : StartTranslationProcess(start_fails)
    \/ \E text \in feed : TwinOnTranscription(text)
    \/ \E audio_fails \in BOOLEAN : TwinStop(audio_fails)

SpecTwin == InitTwin /\ [][NextTwin]_vars

\* ------------------------------------------------------------------------
\* The text functions called on their own: _calculate_similarity,
\* _is_duplicate, _is_sentence_complete and _clean_word_loops
\* ------------------------------------------------------------------------

\* "wait..."
TextWait3 ==
    <<"w","a","i","t",".",".",".">>

\* "wait...."
TextWait4 ==
    <<"w","a","i","t",".",".",".",".">>

\* "Done!"
TextDone ==
    <<"D","o","n","e","!">>

\* " Done! "
TextDonePadded ==
    <<" ","D","o","n","e","!"," ">>

\* "wait. ..."
TextWaitStopDots ==
    <<"w","a","i","t","."," ",".",".",".">>

\* "the the"
TextTheThe ==
    <<"t","h","e"," ","t","h","e">>

\* "the the cat"
TextTheTheCat ==
    <<"t","h","e"," ","t","h","e"," ","c","a","t">>

\* "new new new new car"
TextNewCar ==
    <<"n","e","w"," ","n","e","w"," ","n","e","w"," ","n","e","w"," ",
      "c","a","r">>

\* "a a a b"
TextAaab ==
    <<"a"," ","a"," ","a"," ","b">>

\* "New, new. NEW car"
TextNewPunct ==
    <<"N","e","w",","," ","n","e","w","."," ","N","E","W"," ","c","a",
      "r">>

\* "a  b c"
TextWide ==
    <<"a"," "," ","b"," ","c">>

\* "a b c d e f g"
TextSeven ==
    <<"a"," ","b"," ","c"," ","d"," ","e"," ","f"," ","g">>

\* "a b c d e f g h i j."
TextTen ==
    <<"a"," ","b"," ","c"," ","d"," ","e"," ","f"," ","g"," ","h"," ",
      "i"," ","j",".">>

\* "A B C D E F"
TextSix ==
    <<"A"," ","B"," ","C"," ","D"," ","E"," ","F">>

\* "then we went home again."
TextAgainLower ==
    <<"t","h","e","n"," ","w","e"," ","w","e","n","t"," ","h","o","m",
      "e"," ","a","g","a","i","n",".">>

\* the texts the functions are called with
PureTexts ==
    {FragEmpty, FragBlank, FragDots, FragFourDots, TextWait3, TextWait4,
     TextDone, TextDonePadded, TextWaitStopDots, TextTheThe, TextTheTheCat,
     TextNewCar, TextAaab, TextNewPunct, TextWide, TextSeven, TextTen, TextSix}

\* what recent_transcriptions may hold when _is_duplicate is called:
\* lower-cased sentences that on_transcription emitted
PureHistories ==
    {<<>>, <<TextTen>>, <<TextAgainLower, TextTen>>}

\* "I went to the"
TextWentTo ==
    <<"I"," ","w","e","n","t"," ","t","o"," ","t","h","e">>

\* "to the store"
TextToStore ==
    <<"t","o"," ","t","h","e"," ","s","t","o","r","e">>

\* "x b a b"
TextXbab ==
    <<"x"," ","b"," ","a"," ","b">>

\* "b a b c"
TextBabc ==
    <<"b"," ","a"," ","b"," ","c">>

\* "hello world today"
TextHelloToday ==
    <<"h","e","l","l","o"," ","w","o","r","l","d"," ","t","o","d","a",
      "y">>

\* "hello world todai"
TextHelloTodai ==
    <<"h","e","l","l","o"," ","w","o","r","l","d"," ","t","o","d","a",
      "i">>

\* "x"
TextX ==
    <<"x">>

\* "b"
TextB ==
    <<"b">>

\* " a"
TextPaddedA ==
    <<" ","a">>

\* "a b c d e f"
TextSixLower ==
    <<"a"," ","b"," ","c"," ","d"," ","e"," ","f">>

\* "a b c d e f f f"
TextSixLoop ==
    <<"a"," ","b"," ","c"," ","d"," ","e"," ","f"," ","f"," ","f">>

\* the buffers _merge_fragments is called with
MergeBuffers ==
    {FragEmpty, TextWentTo, TextXbab, TextHelloToday, TextX, TextSeven,
     TextSixLower}

\* the fragments _merge_fragments is called with
MergeFragmentTexts ==
    {TextToStore, TextBabc, TextHelloTodai, TextPaddedA, TextNewCar,
     TextSixLower, TextSixLoop, TextSeven, TextB}

InitPure ==
    /\ sentence_buffer = <<>>
    /\ buffer_start_time = None
    /\ last_fragment_time = None
    /\ recent_transcriptions \in PureHistories
    /\ is_translating = FALSE
    /\ clock = StartClock
    /\ feed = PureTexts
    /\ last = [op |-> "init", text |-> <<>>, now |-> StartClock, failed |-> FALSE,
               pre |-> [buffer |-> <<>>, start |-> None, lastfrag |-> None,
                        recent |-> <<>>, translating |-> FALSE],
               out |-> <<>>]
    /\ stt_thread = IdleThread
    /\ ui_thread = IdleThread
    /\ audio_buffered = FALSE
    /\ buffer_version = 0
    /\ emit_log = <<>>
    /\ call = NoCall
    /\ mixer = MixerConfig
    /\ workers = NoWorkers
    /\ tts = NoTts
    /\ fast_stt = NoStt
    /\ metrics = NoMetrics
    /\ twin = NoTwin

\* a call of a text function: nothing but the record of the call changes
Returned(fn, args, result, again) ==
    /\ call' = [fn |-> fn, args |-> args, result |-> result, again |-> again,
                pre |-> Snapshot]
    /\ UNCHANGED <<sentence_buffer, buffer_start_time, last_fragment_time,
                   recent_transcriptions, is_translating, clock, feed, last,
                   twin, threadVars, mixer, workers, tts, fast_stt, metrics>>

\* _calculate_similarity(s1, s2)
CallCalculateSimilarity(s1, s2) ==
    Returned("_calculate_similarity", <<s1, s2>>, CalculateSimilarity(s1, s2), FALSE)

\* _is_duplicate(text)
CallIsDuplicate(text) ==
    Returned("_is_duplicate", <<text>>, IsDuplicate(text, recent_transcriptions), FALSE)

\* _is_sentence_complete(text)
CallIsSentenceComplete(text) ==
    Returned("_is_sentence_complete", <<text>>, IsSentenceComplete(text), FALSE)

\* _clean_word_loops(text)
CallCleanWordLoops(text) ==
    Returned("_clean_word_loops", <<text>>, CleanWordLoops(text), FALSE)

\* _merge_fragments(buffer, new_fragment)
CallMergeFragments(buffer, new_fragment) ==
    Returned("_merge_fragments", <<buffer, new_fragment>>,
             MergeFragments(buffer, new_fragment), FALSE)

\* _clean_word_loops called with what _clean_word_loops returned
CallCleanWordLoopsAgain ==
    /\ call.fn = "_clean_word_loops"
    /\ ~call.again
    /\ Returned("_clean_word_loops", <<call.result>>, CleanWordLoops(call.result), TRUE)

NextPure ==
    \/ \E s1 \in feed : \E s2 \in feed : CallCalculateSimilarity(s1, s2)
    \/ \E text \in feed : CallIsDuplicate(text)
    \/ \E text \in feed : CallIsSentenceComplete(text)
    \/ \E text \in feed : CallCleanWordLoops(text)
    \/ CallCleanWordLoopsAgain
    \/ \E buffer \in MergeBuffers : \E new_fragment \in MergeFragmentTexts :
           CallMergeFragments(buffer, new_fragment)

SpecPure == InitPure /\ [][NextPure]_vars

\* ------------------------------------------------------------------------
\* The audio mixer: set_volumes, mix_audio_arrays and overlay_translation
\* called on an AudioMixer in any order
\* ------------------------------------------------------------------------

\* the original audio chunks the mixer is called with
AudioOriginals == {<<>>, <<32767, -32768>>, <<20000, -20000, 10>>}

\* the translation audio chunks the mixer is called with
AudioTranslations == {<<>>, <<32767>>, <<-20000, 20000, 10, 7>>}

\* the delay_ms arguments of overlay_translation
AudioDelays == {0, 1, 1001}

\* the arguments of set_volumes, as percentages
VolumeArguments == {None, Some(0 - 50), Some(50), Some(150)}

InitMixer ==
    /\ sentence_buffer = <<>>
    /\ buffer_start_time = None
    /\ last_fragment_time = None
    /\ recent_transcriptions = <<>>
    /\ is_translating = FALSE
    /\ clock = StartClock
    /\ feed = {}
    /\ last = [op |-> "init", text |-> <<>>, now |-> StartClock, failed |-> FALSE,
               pre |-> [buffer |-> <<>>, start |-> None, lastfrag |-> None,
                        recent |-> <<>>, translating |-> FALSE],
               out |-> <<>>]
    /\ stt_thread = IdleThread
    /\ ui_thread = IdleThread
    /\ audio_buffered = FALSE
    /\ buffer_version = 0
    /\ emit_log = <<>>
    /\ call = NoCall
    /\ twin = NoTwin
    /\ mixer = MixerConfig
    /\ workers = NoWorkers
    /\ tts = NoTts
    /\ fast_stt = NoStt
    /\ metrics = NoMetrics

\* an array without samples
EmptyArray == [size |-> 0, at |-> <<>>]

\* a method of the mixer returned an array
ReturnedArray(array) == [raised |-> "", array |-> array]

\* a method of the mixer raised an exception
Raised(exception) == [raised |-> exception, array |-> EmptyArray]

\* the call is over: its name, its arguments, the configuration it started
\* from and its outcome
MixerReturned(fn, args, result) ==
    /\ call' = [fn |-> fn, args |-> args, result |-> result, again |-> FALSE,
                pre |-> mixer]
    /\ UNCHANGED <<sentence_buffer, buffer_start_time, last_fragment_time,
                   recent_transcriptions, is_translating, clock, feed, last,
                   twin, threadVars, workers, tts, fast_stt, metrics>>

\* set_volumes(original_volume, translation_volume)
SetVolumes(original_volume, translation_volume) ==
    /\ mixer' = [mixer EXCEPT
                   !.original_volume = SetVolume(@, original_volume),
                   !.translation_volume = SetVolume(@, translation_volume)]
    /\ MixerReturned("set_volumes", <<original_volume, translation_volume>>,
                     ReturnedArray(EmptyArray))

\* the normalization and the conversion that end mix_audio_arrays and
\* overlay_translation; np.abs(mixed).max() of an empty array raises ValueError
NormalizeAndReturn(fn, args, mixed) ==
    IF mixed.size = 0
    THEN MixerReturned(fn, args, Raised("ValueError"))
    ELSE \E max_val \in {MaxVal(mixed)} :
         \E mixed_int16 \in Int16Arrays(mixed, max_val) :
             MixerReturned(fn, args, ReturnedArray(mixed_int16))

\* mix_audio_arrays(original, translation)
MixAudioArrays(original, translation) ==
    /\ \E mixed \in {MixedSamples(original, translation, mixer)} :
           NormalizeAndReturn("mix_audio_arrays", <<original, translation>>, mixed)
    /\ UNCHANGED mixer

\* overlay_translation(original, translation, delay_ms)
OverlayTranslation(original, translation, delay_ms) ==
    /\ \E delay_samples \in {DelaySamples(delay_ms, mixer.sample_rate)} :
       \E mixed \in {OverlaidSamples(original, translation, delay_samples, mixer)} :
           NormalizeAndReturn("overlay_translation",
                              <<original, translation, delay_ms>>, mixed)
    /\ UNCHANGED mixer

NextMixer ==
    \/ \E original_volume \in VolumeArguments :
       \E translation_volume \in VolumeArguments :
           SetVolumes(original_volume, translation_volume)
    \/ \E original \in AudioOriginals : \E translation \in AudioTranslations :
           MixAudioArrays(original, translation)
    \/ \E original \in AudioOriginals : \E translation \in AudioTranslations :
       \E delay_ms \in AudioDelays :
           OverlayTranslation(original, translation, delay_ms)

SpecMixer == InitMixer /\ [][NextMixer]_vars

\* ------------------------------------------------------------------------
\* The same two methods statement by statement, on two threads: on_transcription
\* is the transcription callback of FastSTTHandler._processing_loop, which the
\* constructor starts on its own thread; stop_translation_process runs on the
\* UI thread.  No lock guards the accumulator fields, so a thread switch is
\* possible between any two reads or writes of them.
\* ------------------------------------------------------------------------

\* what the speech-to-text stage delivers while the UI thread stops the session
\* "we walked to the old market and bought fresh bread."
FragWhole ==
    <<"w","e"," ","w","a","l","k","e","d"," ","t","o"," ","t","h","e",
      " ","o","l","d"," ","m","a","r","k","e","t"," ","a","n","d"," ",
      "b","o","u","g","h","t"," ","f","r","e","s","h"," ","b","r","e",
      "a","d",".">>

RaceFeed == {FragWalked, FragWhole}

\* no fragment is delivered once the buffer has changed this often
MaxWrites == 3

InitThreads ==
    /\ sentence_buffer = <<>>
    /\ buffer_start_time = None
    /\ last_fragment_time = None
    /\ recent_transcriptions = <<>>
    /\ is_translating = FALSE
    /\ clock = StartClock
    /\ feed = RaceFeed
    /\ last = [op |-> "init", text |-> <<>>, now |-> StartClock, failed |-> FALSE,
               pre |-> [buffer |-> <<>>, start |-> None, lastfrag |-> None,
                        recent |-> <<>>, translating |-> FALSE],
               out |-> <<>>]
    /\ stt_thread = IdleThread
    /\ ui_thread = IdleThread
    /\ audio_buffered = FALSE
    /\ buffer_version = 0
    /\ emit_log = <<>>
    /\ call = NoCall
    /\ mixer = MixerConfig
    /\ workers = NoWorkers
    /\ tts = NoTts
    /\ fast_stt = NoStt
    /\ metrics = NoMetrics
    /\ twin = NoTwin

\* an assignment to self.sentence_buffer
SetBuffer(value) ==
    /\ sentence_buffer' = value
    /\ buffer_version' = IF value = sentence_buffer THEN buffer_version
                         ELSE buffer_version + 1

\* a call of process_translation(text), text read from the buffer at version
Emit(by, text, version) ==
    emit_log' = Append(emit_log, [by |-> by, text |-> text, version |-> version])

SttGoto(pc) == stt_thread' = [stt_thread EXCEPT !.pc = pc]

UiGoto(pc) == ui_thread' = [ui_thread EXCEPT !.pc = pc]

\* process_audio_chunk (main.py, lines 496-511) on the capture thread, into
\* FastSTTHandler.add_audio_chunk: audio arrives only while translating
CaptureAudio ==
    /\ is_translating
    /\ ~audio_buffered
    /\ audio_buffered' = TRUE
    /\ UNCHANGED <<sentence_buffer, buffer_start_time, last_fragment_time,
                   recent_transcriptions, is_translating, clock, feed, call, twin, last,
                   stt_thread, ui_thread, buffer_version, emit_log, mixer, workers, tts, fast_stt, metrics>>

\* _processing_loop (stt_handler_fast.py, lines 159-177): a full window is
\* taken from the audio buffer and transcribed
SttTakeWindow ==
    /\ stt_thread.pc = "idle"
    /\ audio_buffered
    /\ buffer_version < MaxWrites
    /\ Len(recent_transcriptions) < MaxEmissions
    /\ audio_buffered' = FALSE
    /\ stt_thread' = [pc |-> "transcribing"]
    /\ UNCHANGED <<sentence_buffer, buffer_start_time, last_fragment_time,
                   recent_transcriptions, is_translating, clock, feed, call, twin, last,
                   ui_thread, buffer_version, emit_log, mixer, workers, tts, fast_stt, metrics>>

\* _processing_loop, line 180: _transcribe found no speech in the window
SttNoText ==
    /\ stt_thread.pc = "transcribing"
    /\ stt_thread' = IdleThread
    /\ UNCHANGED <<sentence_buffer, buffer_start_time, last_fragment_time,
                   recent_transcriptions, is_translating, clock, feed, call, twin, last,
                   ui_thread, audio_buffered, buffer_version, emit_log, mixer, workers, tts, fast_stt, metrics>>

\* _processing_loop, line 181, into on_transcription, lines 650-663: the
\* callback is entered; the local early returns
SttCall(text) ==
    /\ stt_thread.pc = "transcribing"
    /\ stt_thread' =
         IF Strip(text) = <<>> \/ CleanFragment(text) = <<>>
         THEN IdleThread
         ELSE [pc |-> "check_duplicate", text_clean |-> CleanFragment(text),
               current_time |-> clock, merged |-> <<>>, is_complete |-> FALSE,
               timeout_reached |-> FALSE, complete_sentence |-> <<>>,
               read_version |-> 0]
    /\ UNCHANGED <<sentence_buffer, buffer_start_time, last_fragment_time,
                   recent_transcriptions, is_translating, clock, feed, call, twin, last,
                   ui_thread, audio_buffered, buffer_version, emit_log, mixer, workers, tts, fast_stt, metrics>>

\* line 666
SttCheckDuplicate ==
    /\ stt_thread.pc = "check_duplicate"
    /\ stt_thread' = IF IsExactDuplicate(stt_thread.text_clean, sentence_buffer)
                     THEN IdleThread
                     ELSE [stt_thread EXCEPT !.pc = "check_empty"]
    /\ UNCHANGED <<sentence_buffer, buffer_start_time, last_fragment_time,
                   recent_transcriptions, is_translating, clock, feed, call, twin, last,
                   ui_thread, audio_buffered, buffer_version, emit_log, mixer, workers, tts, fast_stt, metrics>>

\* line 671
SttCheckEmpty ==
    /\ stt_thread.pc = "check_empty"
    /\ SttGoto(IF sentence_buffer = <<>> THEN "set_start" ELSE "read_buffer")
    /\ UNCHANGED <<sentence_buffer, buffer_start_time, last_fragment_time,
                   recent_transcriptions, is_translating, clock, feed, call, twin, last,
                   ui_thread, audio_buffered, buffer_version, emit_log, mixer, workers, tts, fast_stt, metrics>>

\* line 672
SttSetStart ==
    /\ stt_thread.pc = "set_start"
    /\ buffer_start_time' = Some(stt_thread.current_time)
    /\ SttGoto("read_buffer")
    /\ UNCHANGED <<sentence_buffer, last_fragment_time,
                   recent_transcriptions, is_translating, clock, feed, call, twin, last,
                   ui_thread, audio_buffered, buffer_version, emit_log, mixer, workers, tts, fast_stt, metrics>>

\* line 675, the argument self.sentence_buffer and the call of _merge_fragments
SttReadBuffer ==
    /\ stt_thread.pc = "read_buffer"
    /\ stt_thread' = [stt_thread EXCEPT
                        !.pc = "write_buffer",
                        !.merged = MergeFragments(sentence_buffer, stt_thread.text_clean)]
    /\ UNCHANGED <<sentence_buffer, buffer_start_time, last_fragment_time,
                   recent_transcriptions, is_translating, clock, feed, call, twin, last,
                   ui_thread, audio_buffered, buffer_version, emit_log, mixer, workers, tts, fast_stt, metrics>>

\* line 675, the assignment
SttWriteBuffer ==
    /\ stt_thread.pc = "write_buffer"
    /\ SetBuffer(stt_thread.merged)
    /\ SttGoto("set_last_fragment")
    /\ UNCHANGED <<buffer_start_time, last_fragment_time,
                   recent_transcriptions, is_translating, clock, feed, call, twin, last,
                   ui_thread, audio_buffered, emit_log, mixer, workers, tts, fast_stt, metrics>>

\* line 676
SttSetLastFragment ==
    /\ stt_thread.pc = "set_last_fragment"
    /\ last_fragment_time' = Some(stt_thread.current_time)
    /\ SttGoto("check_complete")
    /\ UNCHANGED <<sentence_buffer, buffer_start_time,
                   recent_transcriptions, is_translating, clock, feed, call, twin, last,
                   ui_thread, audio_buffered, buffer_version, emit_log, mixer, workers, tts, fast_stt, metrics>>

\* line 681
SttCheckComplete ==
    /\ stt_thread.pc = "check_complete"
    /\ stt_thread' = [stt_thread EXCEPT
                        !.pc = "read_start_first",
                        !.is_complete = IsSentenceComplete(sentence_buffer)]
    /\ UNCHANGED <<sentence_buffer, buffer_start_time, last_fragment_time,
                   recent_transcriptions, is_translating, clock, feed, call, twin, last,
                   ui_thread, audio_buffered, buffer_version, emit_log, mixer, workers, tts, fast_stt, metrics>>

\* line 684: the truth value of self.buffer_start_time
SttReadStartFirst ==
    /\ stt_thread.pc = "read_start_first"
    /\ SttGoto(IF buffer_start_time # None /\ buffer_start_time[1] # 0
               THEN "read_start_second" ELSE "check_long")
    /\ UNCHANGED <<sentence_buffer, buffer_start_time, last_fragment_time,
                   recent_transcriptions, is_translating, clock, feed, call, twin, last,
                   ui_thread, audio_buffered, buffer_version, emit_log, mixer, workers, tts, fast_stt, metrics>>

\* line 685: current_time - self.buffer_start_time; with None the subtraction
\* raises TypeError, which leaves on_transcription and is caught by
\* _processing_loop (stt_handler_fast.py, line 187)
SttReadStartSecond ==
    /\ stt_thread.pc = "read_start_second"
    /\ stt_thread' =
         IF buffer_start_time = None THEN IdleThread
         ELSE [stt_thread EXCEPT
                 !.pc = "check_long",
                 !.timeout_reached =
                     (stt_thread.current_time - buffer_start_time[1] > SentenceTimeout)]
    /\ UNCHANGED <<sentence_buffer, buffer_start_time, last_fragment_time,
                   recent_transcriptions, is_translating, clock, feed, call, twin, last,
                   ui_thread, audio_buffered, buffer_version, emit_log, mixer, workers, tts, fast_stt, metrics>>

\* lines 687 and 690
SttCheckLong ==
    /\ stt_thread.pc = "check_long"
    /\ stt_thread' =
         IF \/ stt_thread.is_complete
            \/ (stt_thread.timeout_reached /\ IsLongEnough(sentence_buffer))
         THEN [stt_thread EXCEPT !.pc = "read_sentence"]
         ELSE IdleThread
    /\ UNCHANGED <<sentence_buffer, buffer_start_time, last_fragment_time,
                   recent_transcriptions, is_translating, clock, feed, call, twin, last,
                   ui_thread, audio_buffered, buffer_version, emit_log, mixer, workers, tts, fast_stt, metrics>>

\* lines 691-698
SttReadSentence ==
    /\ stt_thread.pc = "read_sentence"
    /\ stt_thread' = [stt_thread EXCEPT
                        !.pc = IF TooShort(CompleteSentence(sentence_buffer))
                               THEN "discard_buffer" ELSE "push_recent",
                        !.complete_sentence = CompleteSentence(sentence_buffer),
                        !.read_version = buffer_version]
    /\ UNCHANGED <<sentence_buffer, buffer_start_time, last_fragment_time,
                   recent_transcriptions, is_translating, clock, feed, call, twin, last,
                   ui_thread, audio_buffered, buffer_version, emit_log, mixer, workers, tts, fast_stt, metrics>>

\* line 700
SttDiscardBuffer ==
    /\ stt_thread.pc = "discard_buffer"
    /\ SetBuffer(<<>>)
    /\ SttGoto("discard_start")
    /\ UNCHANGED <<buffer_start_time, last_fragment_time,
                   recent_transcriptions, is_translating, clock, feed, call, twin, last,
                   ui_thread, audio_buffered, emit_log, mixer, workers, tts, fast_stt, metrics>>

\* line 701
SttDiscardStart ==
    /\ stt_thread.pc = "discard_start"
    /\ buffer_start_time' = None
    /\ SttGoto("discard_last_fragment")
    /\ UNCHANGED <<sentence_buffer, last_fragment_time,
                   recent_transcriptions, is_translating, clock, feed, call, twin, last,
                   ui_thread, audio_buffered, buffer_version, emit_log, mixer, workers, tts, fast_stt, metrics>>

\* lines 702-703
SttDiscardLastFragment ==
    /\ stt_thread.pc = "discard_last_fragment"
    /\ last_fragment_time' = None
    /\ stt_thread' = IdleThread
    /\ UNCHANGED <<sentence_buffer, buffer_start_time,
                   recent_transcriptions, is_translating, clock, feed, call, twin, last,
                   ui_thread, audio_buffered, buffer_version, emit_log, mixer, workers, tts, fast_stt, metrics>>

\* lines 706-708; only this thread touches recent_transcriptions
SttPushRecent ==
    /\ stt_thread.pc = "push_recent"
    /\ recent_transcriptions' =
           PushRecent(recent_transcriptions, stt_thread.complete_sentence)
    /\ SttGoto("emit")
    /\ UNCHANGED <<sentence_buffer, buffer_start_time, last_fragment_time,
                   is_translating, clock, feed, call, twin, last,
                   ui_thread, audio_buffered, buffer_version, emit_log, mixer, workers, tts, fast_stt, metrics>>

\* line 720
SttEmit ==
    /\ stt_thread.pc = "emit"
    /\ Emit("completion", stt_thread.complete_sentence, stt_thread.read_version)
    /\ SttGoto("clear_buffer")
    /\ UNCHANGED <<sentence_buffer, buffer_start_time, last_fragment_time,
                   recent_transcriptions, is_translating, clock, feed, call, twin, last,
                   ui_thread, audio_buffered, buffer_version, mixer, workers, tts, fast_stt, metrics>>

\* line 723
SttClearBuffer ==
    /\ stt_thread.pc = "clear_buffer"
    /\ SetBuffer(<<>>)
    /\ SttGoto("clear_start")
    /\ UNCHANGED <<buffer_start_time, last_fragment_time,
                   recent_transcriptions, is_translating, clock, feed, call, twin, last,
                   ui_thread, audio_buffered, emit_log, mixer, workers, tts, fast_stt, metrics>>

\* line 724
SttClearStart ==
    /\ stt_thread.pc = "clear_start"
    /\ buffer_start_time' = None
    /\ SttGoto("clear_last_fragment")
    /\ UNCHANGED <<sentence_buffer, last_fragment_time,
                   recent_transcriptions, is_translating, clock, feed, call, twin, last,
                   ui_thread, audio_buffered, buffer_version, emit_log, mixer, workers, tts, fast_stt, metrics>>

\* line 725
SttClearLastFragment ==
    /\ stt_thread.pc = "clear_last_fragment"
    /\ last_fragment_time' = None
    /\ stt_thread' = IdleThread
    /\ UNCHANGED <<sentence_buffer, buffer_start_time,
                   recent_transcriptions, is_translating, clock, feed, call, twin, last,
                   ui_thread, audio_buffered, buffer_version, emit_log, mixer, workers, tts, fast_stt, metrics>>

\* start_translation_process on the UI thread; it touches no accumulator field
UiStart(start_fails) ==
    /\ ui_thread.pc = "idle"
    /\ ~is_translating
    /\ is_translating' = ~start_fails
    /\ UNCHANGED <<sentence_buffer, buffer_start_time, last_fragment_time,
                   recent_transcriptions, clock, feed, call, twin, last,
                   stt_thread, ui_thread, audio_buffered, buffer_version, emit_log, mixer, workers, tts, fast_stt, metrics>>

\* lines 452-455
UiStopCall ==
    /\ ui_thread.pc = "idle"
    /\ is_translating
    /\ is_translating' = FALSE
    /\ ui_thread' = [pc |-> "stop_audio"]
    /\ UNCHANGED <<sentence_buffer, buffer_start_time, last_fragment_time,
                   recent_transcriptions, clock, feed, call, twin, last,
                   stt_thread, audio_buffered, buffer_version, emit_log, mixer, workers, tts, fast_stt, metrics>>

\* lines 459-462; an exception goes to the except clause at line 493
UiStopAudio(audio_fails) ==
    /\ ui_thread.pc = "stop_audio"
    /\ ui_thread' = IF audio_fails THEN IdleThread ELSE [pc |-> "check_pending_strip"]
    /\ UNCHANGED <<sentence_buffer, buffer_start_time, last_fragment_time,
                   recent_transcriptions, is_translating, clock, feed, call, twin, last,
                   stt_thread, audio_buffered, buffer_version, emit_log, mixer, workers, tts, fast_stt, metrics>>

\* line 469, self.sentence_buffer.strip()
UiCheckPendingStrip ==
    /\ ui_thread.pc = "check_pending_strip"
    /\ UiGoto(IF Strip(sentence_buffer) # <<>> THEN "check_pending_len"
              ELSE "clear_buffer")
    /\ UNCHANGED <<sentence_buffer, buffer_start_time, last_fragment_time,
                   recent_transcriptions, is_translating, clock, feed, call, twin, last,
                   stt_thread, audio_buffered, buffer_version, emit_log, mixer, workers, tts, fast_stt, metrics>>

\* line 469, len(self.sentence_buffer) >= self.min_sentence_length
UiCheckPendingLen ==
    /\ ui_thread.pc = "check_pending_len"
    /\ UiGoto(IF Len(sentence_buffer) >= MinSentenceLength THEN "flush"
              ELSE "clear_buffer")
    /\ UNCHANGED <<sentence_buffer, buffer_start_time, last_fragment_time,
                   recent_transcriptions, is_translating, clock, feed, call, twin, last,
                   stt_thread, audio_buffered, buffer_version, emit_log, mixer, workers, tts, fast_stt, metrics>>

\* line 473
UiFlush ==
    /\ ui_thread.pc = "flush"
    /\ Emit("flush", PendingSentence(sentence_buffer), buffer_version)
    /\ UiGoto("clear_buffer")
    /\ UNCHANGED <<sentence_buffer, buffer_start_time, last_fragment_time,
                   recent_transcriptions, is_translating, clock, feed, call, twin, last,
                   stt_thread, audio_buffered, buffer_version, mixer, workers, tts, fast_stt, metrics>>

\* line 476
UiClearBuffer ==
    /\ ui_thread.pc = "clear_buffer"
    /\ SetBuffer(StopReset.buffer)
    /\ UiGoto("clear_start")
    /\ UNCHANGED <<buffer_start_time, last_fragment_time,
                   recent_transcriptions, is_translating, clock, feed, call, twin, last,
                   stt_thread, audio_buffered, emit_log, mixer, workers, tts, fast_stt, metrics>>

\* line 477
UiClearStart ==
    /\ ui_thread.pc = "clear_start"
    /\ buffer_start_time' = StopReset.start
    /\ UiGoto("clear_last_fragment")
    /\ UNCHANGED <<sentence_buffer, last_fragment_time,
                   recent_transcriptions, is_translating, clock, feed, call, twin, last,
                   stt_thread, audio_buffered, buffer_version, emit_log, mixer, workers, tts, fast_stt, metrics>>

\* line 478
UiClearLastFragment ==
    /\ ui_thread.pc = "clear_last_fragment"
    /\ last_fragment_time' = StopReset.lastfrag
    /\ UiGoto("clear_stt")
    /\ UNCHANGED <<sentence_buffer, buffer_start_time,
                   recent_transcriptions, is_translating, clock, feed, call, twin, last,
                   stt_thread, audio_buffered, buffer_version, emit_log, mixer, workers, tts, fast_stt, metrics>>

\* lines 480-494: stt_handler.clear_buffer(), and the method returns
UiClearStt ==
    /\ ui_thread.pc = "clear_stt"
    /\ audio_buffered' = FALSE
    /\ ui_thread' = IdleThread
    /\ UNCHANGED <<sentence_buffer, buffer_start_time, last_fragment_time,
                   recent_transcriptions, is_translating, clock, feed, call, twin, last,
                   stt_thread, buffer_version, emit_log, mixer, workers, tts, fast_stt, metrics>>

SttStep ==
    \/ SttTakeWindow
    \/ SttNoText
    \/ \E text \in feed : SttCall(text)
    \/ SttCheckDuplicate
    \/ SttCheckEmpty
    \/ SttSetStart
    \/ SttReadBuffer
    \/ SttWriteBuffer
    \/ SttSetLastFragment
    \/ SttCheckComplete
    \/ SttReadStartFirst
    \/ SttReadStartSecond
    \/ SttCheckLong
    \/ SttReadSentence
    \/ SttDiscardBuffer
    \/ SttDiscardStart
    \/ SttDiscardLastFragment
    \/ SttPushRecent
    \/ SttEmit
    \/ SttClearBuffer
    \/ SttClearStart
    \/ SttClearLastFragment

UiStep ==
    \/ \E start_fails \in BOOLEAN : UiStart(start_fails)
    \/ UiStopCall
    \/ \E audio_fails \in BOOLEAN : UiStopAudio(audio_fails)
    \/ UiCheckPendingStrip
    \/ UiCheckPendingLen
    \/ UiFlush
    \/ UiClearBuffer
    \/ UiClearStart
    \/ UiClearLastFragment
    \/ UiClearStt

NextThreads == Tick \/ CaptureAudio \/ SttStep \/ UiStep

SpecThreads == InitThreads /\ [][NextThreads]_vars

\* ------------------------------------------------------------------------
\* The translation workers and the TTS queue: on_transcription runs on the
\* STT thread; process_translation starts one thread per emitted sentence,
\* each of which translates and then calls TTSHandler.speak_text; the
\* handler's persistent _queue_worker thread takes texts off tts_queue
\* ------------------------------------------------------------------------

\* speak_text: a text shorter than this is not spoken
MinSpokenLength == 15

\* speak_text: threshold=0.85 of the similarity check against recent texts
SpokenSimilarityPct == 85

\* TTSHandler._max_recent
MaxRecent == 5

\* speak_text: the queue takes a text while qsize() is below this
QueueLimit == 1

\* no fragment is delivered once this many sentences were emitted
MaxDispatched == 2

\* TTSHandler._is_similar(text1, text2, threshold)
IsSimilar(text1, text2, threshold_pct) ==
    LET words1 == WordSet(Split(Lower(text1)))
        words2 == WordSet(Split(Lower(text2)))
        intersection == Cardinality(words1 \cap words2)
        union == Cardinality(words1 \cup words2)
    IN  IF text1 = <<>> \/ text2 = <<>> THEN FALSE
        ELSE IF words1 = {} \/ words2 = {} THEN FALSE
        ELSE RatioAtLeast(IF union > 0 THEN <<intersection, union>> ELSE <<0, 1>>,
                          threshold_pct)

\* speak_text up to the queue: whether the text is dropped before it is
\* recorded (empty, too short, or a repetition of a recent text)
IsSkipped(text, recent_texts) ==
    \/ Strip(text) = <<>>
    \/ Len(Strip(text)) < MinSpokenLength
    \/ \E i \in 1..Len(recent_texts) : Lower(recent_texts[i]) = Lower(Strip(text))
    \/ \E i \in 1..Len(recent_texts) :
            IsSimilar(text, recent_texts[i], SpokenSimilarityPct)

\* speak_text: _recent_texts.append(text), pop(0) beyond _max_recent
Remembered(text, recent_texts) ==
    TakeLast(Append(recent_texts, text), MaxRecent)

\* speak_text: tts_queue.qsize() < 1
HasRoom(tts_queue) == Len(tts_queue) < QueueLimit

\* faulty variant of AwaitedThreads: the caller joins every thread it started
AwaitedThreadsAll(threads) == DOMAIN threads

\* process_translation: the threads its caller waits for before it returns:
\* thread.start() is not followed by a join
AwaitedThreads(threads) == {i \in DOMAIN threads : FALSE}

\* the thread process_translation starts: _translate_and_display(original_text)
\* before its first statement; remembered, queued: whether its speak_text
\* call has appended to _recent_texts, has put on tts_queue
StartedThread(original_text) ==
    [pc |-> "translate", original_text |-> original_text, final_text |-> <<>>,
     remembered |-> FALSE, queued |-> FALSE]

\* process_translation(original_text) for every sentence in out
ProcessTranslation(w, out) ==
    IF out = <<>> \/ ~w.handler THEN w
    ELSE [w EXCEPT !.threads = Append(@, StartedThread(out[1]))]

\* TTSHandler.stop_speaking: the queue is drained, _recent_texts = []
StopSpeaking(t) == [t EXCEPT !.tts_queue = <<>>, !.recent_texts = <<>>]

\* "entonces volvimos a casa otra vez."
TransAgain ==
    <<"e","n","t","o","n","c","e","s"," ","v","o","l","v","i","m","o","s",
      " ","a"," ","c","a","s","a"," ","o","t","r","a"," ","v","e","z",".">>

\* "caminamos al mercado viejo y luego fuimos a casa."
TransWalked ==
    <<"c","a","m","i","n","a","m","o","s"," ","a","l"," ","m","e","r","c",
      "a","d","o"," ","v","i","e","j","o"," ","y"," ","l","u","e","g","o",
      " ","f","u","i","m","o","s"," ","a"," ","c","a","s","a",".">>

\* "Caminamos Al Mercado Viejo Y Luego Fuimos A Casa."
TransWalkedLoud ==
    <<"C","a","m","i","n","a","m","o","s"," ","A","l"," ","M","e","r","c",
      "a","d","o"," ","V","i","e","j","o"," ","Y"," ","L","u","e","g","o",
      " ","F","u","i","m","o","s"," ","A"," ","C","a","s","a",".">>

\* "a casa."
TransShort ==
    <<"a"," ","c","a","s","a",".">>

\* what translation_handler.postprocess_text may return for a sentence
Translations == {TransAgain, TransWalked, TransWalkedLoud, TransShort}

\* the fragments of the session
WorkersFeed == {FragAgain, FragWalked, FragHome, FragWhole}

\* the speaker says three sentences; the second arrives as two fragments
WorkersSpokenNext ==
    IF sentence_buffer # <<>> THEN FragHome
    ELSE IF Len(emit_log) = 0 THEN FragAgain
    ELSE IF Len(emit_log) = 1 THEN FragWalked
    ELSE FragWhole

\* the application after construction: the translation handler and the TTS
\* handler may each have failed to initialise; tts_enabled = False
InitWorkers ==
    /\ sentence_buffer = <<>>
    /\ buffer_start_time = None
    /\ last_fragment_time = None
    /\ recent_transcriptions = <<>>
    /\ is_translating = FALSE
    /\ clock = StartClock
    /\ feed = WorkersFeed
    /\ last = [op |-> "init", text |-> <<>>, now |-> StartClock, failed |-> FALSE,
               pre |-> [buffer |-> <<>>, start |-> None, lastfrag |-> None,
                        recent |-> <<>>, translating |-> FALSE],
               out |-> <<>>]
    /\ stt_thread = IdleThread
    /\ ui_thread = IdleThread
    /\ audio_buffered = FALSE
    /\ buffer_version = 0
    /\ emit_log = <<>>
    /\ call = NoCall
    /\ twin = NoTwin
    /\ mixer = MixerConfig
    /\ workers \in {[handler |-> h, threads |-> <<>>] : h \in BOOLEAN}
    /\ tts \in {[NoTts EXCEPT !.handler = h] : h \in BOOLEAN}
    /\ fast_stt = NoStt
    /\ metrics = NoMetrics

workerFrame == <<stt_thread, ui_thread, audio_buffered, buffer_version,
                 call, twin, mixer, fast_stt, metrics>>

accumulatorVars == <<sentence_buffer, buffer_start_time, last_fragment_time,
                     recent_transcriptions, is_translating, clock, feed, last,
                     emit_log>>

\* the STT thread is not held up: the speaker has more to say and every
\* thread the caller of process_translation waits for has finished
CanDeliver ==
    /\ Len(emit_log) < MaxDispatched
    /\ \A i \in AwaitedThreads(workers.threads) : workers.threads[i].pc = "done"

\* on_transcription(text) on the STT thread, run to its return: it calls
\* process_translation for the sentence it emits
DispatchingOnTranscription(text) ==
    /\ CanDeliver
    /\ text = WorkersSpokenNext
    /\ OnTranscriptionRun(text)
    /\ LogEmissions("completion", last'.out)
    /\ workers' = ProcessTranslation(workers, last'.out)
    /\ UNCHANGED <<workerFrame, tts>>

\* set_tts_enabled(enabled) on the UI thread; init_ok: _init_tts returns a
\* handler
SetTtsEnabled(enabled, init_ok) ==
    /\ tts' = IF enabled
              THEN [tts EXCEPT !.enabled = TRUE, !.handler = @ \/ init_ok]
              ELSE IF tts.handler
              THEN [StopSpeaking(tts) EXCEPT !.enabled = FALSE]
              ELSE [tts EXCEPT !.enabled = FALSE]
    /\ UNCHANGED <<accumulatorVars, workerFrame, workers>>

\* _translate_and_display of thread i, from the translation to the test of
\* tts_enabled
Translate(i, final_text) ==
    /\ workers.threads[i].pc = "translate"
    /\ workers' = [workers EXCEPT !.threads[i].final_text = final_text,
                                  !.threads[i].pc =
                                      IF tts.handler /\ tts.enabled
                                      THEN "speak_text" ELSE "done"]
    /\ UNCHANGED <<accumulatorVars, workerFrame, tts>>

\* speak_text(final_text) of thread i, up to the update of _recent_texts
SpeakTextRemember(i) ==
    /\ workers.threads[i].pc = "speak_text"
    /\ \E text \in {workers.threads[i].final_text} :
        IF IsSkipped(text, tts.recent_texts)
        THEN /\ workers' = [workers EXCEPT !.threads[i].pc = "done"]
             /\ tts' = tts
        ELSE /\ workers' = [workers EXCEPT !.threads[i].pc = "qsize",
                                           !.threads[i].remembered = TRUE]
             /\ tts' = [tts EXCEPT !.recent_texts = Remembered(text, @)]
    /\ UNCHANGED <<accumulatorVars, workerFrame>>

\* speak_text of thread i: the test tts_queue.qsize() < 1
SpeakTextQsize(i) ==
    /\ workers.threads[i].pc = "qsize"
    /\ workers' = [workers EXCEPT !.threads[i].pc =
                                      IF HasRoom(tts.tts_queue)
                                      THEN "put" ELSE "done"]
    /\ UNCHANGED <<accumulatorVars, workerFrame, tts>>

\* speak_text of thread i: tts_queue.put(text)
SpeakTextPut(i) ==
    /\ workers.threads[i].pc = "put"
    /\ tts' = [tts EXCEPT !.tts_queue = Append(@, workers.threads[i].final_text)]
    /\ workers' = [workers EXCEPT !.threads[i].pc = "done",
                                  !.threads[i].queued = TRUE]
    /\ UNCHANGED <<accumulatorVars, workerFrame>>

\* _queue_worker: tts_queue.get returns the next text, which is spoken
QueueWorkerGet ==
    /\ tts.tts_queue # <<>>
    /\ tts' = [tts EXCEPT !.tts_queue = Tail(@)]
    /\ UNCHANGED <<accumulatorVars, workerFrame, workers>>

WorkerStep ==
    \E i \in DOMAIN workers.threads :
        \/ \E final_text \in Translations : Translate(i, final_text)
        \/ SpeakTextRemember(i)
        \/ SpeakTextQsize(i)
        \/ SpeakTextPut(i)

SttDelivers == \E text \in feed : DispatchingOnTranscription(text)

NextWorkers ==
    \/ SttDelivers
    \/ \E enabled \in BOOLEAN, init_ok \in BOOLEAN : SetTtsEnabled(enabled, init_ok)
    \/ WorkerStep
    \/ QueueWorkerGet

SpecWorkers == InitWorkers /\ [][NextWorkers]_vars

\* the STT thread keeps delivering fragments: weak fairness of SttDelivers,
\* WF_vars(SttDelivers), with ENABLED <<SttDelivers>>_vars written out as
\* CanDeliver (every delivery of the session changes the accumulator).
\* Nothing is assumed about the translation threads, which may stay in the
\* translation for ever.
SpecWorkersFair ==
    SpecWorkers /\ ([]<>(~CanDeliver) \/ []<><<SttDelivers>>_vars)

\* ------------------------------------------------------------------------
\* The audio buffer of FastSTTHandler: the capture thread adds chunks, the UI
\* thread clears the buffer when the session stops, and _processing_loop
\* takes windows off it on the processing thread
\* ------------------------------------------------------------------------

\* _processing_loop: the sample rate in int(16000 * self.buffer_duration)
SampleRate == 16000

\* FastSTTHandler.buffer_duration, in seconds
BufferSeconds == 2

\* AudioHandler.chunk_size: the samples of one captured chunk
ChunkSamples == 1024

\* no chunk is captured once this many were
MaxChunks == 34

\* _processing_loop: required_samples = int(16000 * self.buffer_duration)
RequiredSamples == SampleRate * BufferSeconds

\* len(audio_buffer)
BufferLen(audio_buffer) == audio_buffer.to - audio_buffer.from

\* audio_buffer[:n]
BufferPrefix(audio_buffer, n) ==
    [from |-> audio_buffer.from,
     to |-> Min2(audio_buffer.from + n, audio_buffer.to)]

\* audio_buffer[n:]
BufferFrom(audio_buffer, n) ==
    [from |-> Min2(audio_buffer.from + n, audio_buffer.to),
     to |-> audio_buffer.to]

\* the variables outside FastSTTHandler's audio buffer
sttFrame == <<accumulatorVars, stt_thread, ui_thread, audio_buffered,
              buffer_version, call, twin, mixer, workers, tts, metrics>>

InitStt == InitWorkers

\* add_audio_chunk(audio_data) on the capture thread, under buffer_lock
AddAudioChunk ==
    /\ fast_stt.audio_buffer.to < MaxChunks * ChunkSamples
    /\ fast_stt' = [fast_stt EXCEPT !.audio_buffer.to = @ + ChunkSamples]
    /\ UNCHANGED sttFrame

\* clear_buffer() on the UI thread, under buffer_lock
ClearBuffer ==
    /\ fast_stt' = [fast_stt EXCEPT !.audio_buffer.from = fast_stt.audio_buffer.to]
    /\ UNCHANGED sttFrame

\* _processing_loop: buffer_size is read under buffer_lock, the lock is
\* released and buffer_size is compared with required_samples; a buffer
\* that is too short sends the loop to sleep and round again
LoopCheck ==
    /\ fast_stt.loop.pc = "check"
    /\ \E buffer_size \in {BufferLen(fast_stt.audio_buffer)} :
        fast_stt' = [fast_stt EXCEPT
                        !.loop = [pc |-> IF buffer_size >= RequiredSamples
                                         THEN "take" ELSE "check",
                                  buffer_size |-> buffer_size]]
    /\ UNCHANGED sttFrame

\* _processing_loop: under buffer_lock again, audio_to_process is the first
\* required_samples samples and the buffer is cut to what follows the first
\* required_samples - overlap
LoopTake ==
    /\ fast_stt.loop.pc = "take"
    /\ \E overlap \in {RequiredSamples \div 2} :
       \E cut \in {BufferFrom(fast_stt.audio_buffer, RequiredSamples - overlap)} :
        fast_stt' = [fast_stt EXCEPT
                        !.window = BufferPrefix(fast_stt.audio_buffer, RequiredSamples),
                        !.audio_buffer = cut,
                        !.retained = cut,
                        !.loop.pc = "transcribe"]
    /\ UNCHANGED sttFrame

\* _processing_loop: _transcribe(audio_to_process) and the callback return
LoopTranscribe ==
    /\ fast_stt.loop.pc = "transcribe"
    /\ fast_stt' = [fast_stt EXCEPT !.loop.pc = "check"]
    /\ UNCHANGED sttFrame

NextStt ==
    \/ AddAudioChunk
    \/ ClearBuffer
    \/ LoopCheck
    \/ LoopTake
    \/ LoopTranscribe

SpecStt == InitStt /\ [][NextStt]_vars

\* ------------------------------------------------------------------------
\* PerformanceMetrics: translation threads record their runs while the UI
\* thread builds the summary
\* ------------------------------------------------------------------------

\* no run is recorded once this many were
MaxRuns == 2

\* the variables outside PerformanceMetrics
metricsFrame == <<accumulatorVars, stt_thread, ui_thread, audio_buffered,
                  buffer_version, call, twin, mixer, workers, tts, fast_stt>>

InitMetrics == InitWorkers

\* record_pipeline_run(..., success) of thread t: with self._lock is entered
\* and the latencies are appended
RecordEnter(t, success) ==
    /\ metrics.recording[t].pc = "idle"
    /\ metrics._lock = 0
    /\ metrics.total_runs < MaxRuns
    /\ metrics' = [metrics EXCEPT !._lock = t,
                                  !.recording[t] = [pc |-> "total_runs",
                                                    success |-> success]]
    /\ UNCHANGED metricsFrame

\* record_pipeline_run of thread t: self.total_runs += 1
RecordTotal(t) ==
    /\ metrics.recording[t].pc = "total_runs"
    /\ metrics' = [metrics EXCEPT !.total_runs = @ + 1,
                                  !.recording[t].pc = "outcome"]
    /\ UNCHANGED metricsFrame

\* record_pipeline_run of thread t: self.successful_runs += 1 or
\* self.failed_runs += 1
RecordOutcome(t) ==
    /\ metrics.recording[t].pc = "outcome"
    /\ metrics' = IF metrics.recording[t].success
                  THEN [metrics EXCEPT !.successful_runs = @ + 1,
                                       !.recording[t].pc = "exit"]
                  ELSE [metrics EXCEPT !.failed_runs = @ + 1,
                                       !.recording[t].pc = "exit"]
    /\ UNCHANGED metricsFrame

\* record_pipeline_run of thread t: the with block is left
RecordExit(t) ==
    /\ metrics.recording[t].pc = "exit"
    /\ metrics' = [metrics EXCEPT !._lock = 0, !.recording[t].pc = "idle"]
    /\ UNCHANGED metricsFrame

\* get_summary: 'total_runs': self.total_runs
SummaryTotal ==
    /\ metrics.summary.pc \in {"idle", "returned"}
    /\ metrics' = [metrics EXCEPT !.summary.total_runs = metrics.total_runs,
                                  !.summary.pc = "successful_runs"]
    /\ UNCHANGED metricsFrame

\* get_summary: 'successful_runs': self.successful_runs
SummarySuccessful ==
    /\ metrics.summary.pc = "successful_runs"
    /\ metrics' = [metrics EXCEPT !.summary.successful_runs = metrics.successful_runs,
                                  !.summary.pc = "failed_runs"]
    /\ UNCHANGED metricsFrame

\* get_summary: 'failed_runs': self.failed_runs
SummaryFailed ==
    /\ metrics.summary.pc = "failed_runs"
    /\ metrics' = [metrics EXCEPT !.summary.failed_runs = metrics.failed_runs,
                                  !.summary.pc = "success_rate_pct"]
    /\ UNCHANGED metricsFrame

\* get_success_rate, under self._lock, as the fraction successful_runs * 100
\* over total_runs
SuccessRate(m) ==
    IF m.total_runs = 0 THEN <<0, 1>> ELSE <<m.successful_runs * 100, m.total_runs>>

\* get_summary: 'success_rate_pct': self.get_success_rate() and the getters
\* after it, each under self._lock; the dictionary is returned
SummaryRate ==
    /\ metrics.summary.pc = "success_rate_pct"
    /\ metrics._lock = 0
    /\ metrics' = [metrics EXCEPT !.summary.success_rate_pct = SuccessRate(metrics),
                                  !.summary.pc = "returned"]
    /\ UNCHANGED metricsFrame

NextMetrics ==
    \/ \E t \in RecordingThreads, success \in BOOLEAN : RecordEnter(t, success)
    \/ \E t \in RecordingThreads : RecordTotal(t)
    \/ \E t \in RecordingThreads : RecordOutcome(t)
    \/ \E t \in RecordingThreads : RecordExit(t)
    \/ SummaryTotal
    \/ SummarySuccessful
    \/ SummaryFailed
    \/ SummaryRate

SpecMetrics == InitMetrics /\ [][NextMetrics]_vars

\* ------------------------------------------------------------------------
\* Properties of the accumulator under sequentially executed calls
\* ------------------------------------------------------------------------

\* the last operation was a call of on_transcription
WasOnTranscription == last.op = "on_transcription"

\* the last operation was a call of stop_translation_process in a running session
WasStop == last.op = "stop" /\ last.pre.translating

\* the last on_transcription call got past its early returns and merged
WasMerge == WasOnTranscription /\ ~IsIgnored(last.text, last.pre.buffer)

\* the buffer as the last on_transcription call merged it
MergedByLast == MergeFragments(last.pre.buffer, CleanFragment(last.text))

\* text ends in one of . ! ? ;
EndsInTerminal(text) == text # <<>> /\ text[Len(text)] \in {".", "!", "?", ";"}

\* the accumulator is in its EMPTY state
IsReset ==
    /\ sentence_buffer = <<>>
    /\ buffer_start_time = None
    /\ last_fragment_time = None

\* the accumulator is as the last operation found it
BufferUntouched ==
    /\ sentence_buffer = last.pre.buffer
    /\ buffer_start_time = last.pre.start
    /\ last_fragment_time = last.pre.lastfrag

\* C1: between sequentially executed calls, sentence_buffer is empty iff
\* buffer_start_time is None iff last_fragment_time is None.
C1_BufferInvariant ==
    /\ (sentence_buffer = <<>>) <=> (buffer_start_time = None)
    /\ (buffer_start_time = None) <=> (last_fragment_time = None)

\* C1 witness: a second fragment was merged into a non-empty buffer at a later
\* time, so the three fields are set and the two timestamps differ.
C1_Witness ==
    /\ WasMerge
    /\ last.pre.buffer # <<>>
    /\ sentence_buffer # <<>>
    /\ buffer_start_time # None
    /\ last_fragment_time # None
    /\ buffer_start_time # last_fragment_time

\* C4: every text handed to process_translation, by the completion path or by
\* the stop-time flush, has at least 20 characters.
C4_MinEmittedLength ==
    \A i \in 1..Len(last.out) : Len(last.out[i]) >= MinEmitLength

\* C4 witness: an on_transcription call that emitted a sentence shorter than
\* min_sentence_length (50) but not shorter than 20.
C4_Witness ==
    /\ WasOnTranscription
    /\ Len(last.out) = 1
    /\ Len(last.out[1]) < MinSentenceLength

\* C5: an on_transcription call whose merged buffer, ellipsis-stripped, ends in
\* one of . ! ? ; and has at least 20 characters hands exactly that text to
\* process_translation, once, and returns with the accumulator reset.
C5_CompletionByPunctuation ==
    (/\ WasMerge
     /\ EndsInTerminal(StripEllipsis(Strip(MergedByLast)))
     /\ Len(StripEllipsis(Strip(MergedByLast))) >= MinEmitLength)
    => (/\ last.out = <<StripEllipsis(Strip(MergedByLast))>>
        /\ IsReset)

\* C5 witness: a sentence completed by punctuation from two merged fragments,
\* before any timeout.
C5_Witness ==
    /\ WasMerge
    /\ last.pre.buffer # <<>>
    /\ last.now = last.pre.start[1]
    /\ Len(last.out) = 1
    /\ EndsInTerminal(last.out[1])
    /\ IsReset

\* the state the timeout claim is about: at least 50 characters buffered, no
\* terminal punctuation, and more than sentence_timeout since buffer_start_time
TimedOutBeforeLast ==
    /\ WasOnTranscription
    /\ Len(last.pre.buffer) >= MinSentenceLength
    /\ ~EndsInTerminal(StripEllipsis(Strip(last.pre.buffer)))
    /\ last.pre.start # None
    /\ last.now - last.pre.start[1] > SentenceTimeout

\* C6 as stated: with at least 50 characters buffered without terminal
\* punctuation and the timeout passed, the next on_transcription call emits
\* and resets the buffer.
C6_NextCallEmits ==
    TimedOutBeforeLast => (Len(last.out) = 1 /\ IsReset)

\* C6 amended: in that state, a call whose cleaned fragment is empty or equals
\* the buffer case-insensitively emits nothing and changes nothing; any other
\* call whose merged buffer still has at least 50 characters resets the
\* accumulator and emits the ellipsis-stripped merged buffer exactly once
\* (nothing if that has fewer than 20 characters).
C6_TimeoutOnMerge ==
    TimedOutBeforeLast =>
        IF IsIgnored(last.text, last.pre.buffer)
        THEN last.out = <<>> /\ BufferUntouched
        ELSE Len(MergedByLast) >= MinSentenceLength =>
                /\ IsReset
                /\ last.out = IF Len(StripEllipsis(Strip(MergedByLast))) < MinEmitLength
                              THEN <<>>
                              ELSE <<StripEllipsis(Strip(MergedByLast))>>

\* C6 witness: a timed-out buffer was emitted by a merging call although the
\* merged text has no terminal punctuation.
C6_Witness ==
    /\ TimedOutBeforeLast
    /\ WasMerge
    /\ Len(last.out) = 1
    /\ ~EndsInTerminal(last.out[1])
    /\ IsReset

\* C7: a stop_translation_process call that runs without error on a buffer of
\* at least 50 characters without terminal punctuation emits exactly one
\* sentence, the buffer with trailing ellipsis runs stripped, and resets.
C7_StopFlushContent ==
    (/\ WasStop
     /\ ~last.failed
     /\ Len(last.pre.buffer) >= MinSentenceLength
     /\ ~EndsInTerminal(StripEllipsis(Strip(last.pre.buffer))))
    => (/\ last.out = <<StripEllipsis(Strip(last.pre.buffer))>>
        /\ IsReset)

\* the history after lower(text) is pushed onto recent, oldest evicted beyond 10
HistoryAfter(recent, text) ==
    IF Len(recent) + 1 > MaxRecentTranscriptions
    THEN Tail(recent) \o <<Lower(text)>>
    ELSE recent \o <<Lower(text)>>

\* C8: an operation that hands a sentence to process_translation has appended
\* its lower-cased text to recent_transcriptions, and recent_transcriptions
\* changes in no other operation.
C8_EmissionRecorded ==
    IF Len(last.out) = 1
    THEN recent_transcriptions = HistoryAfter(last.pre.recent, last.out[1])
    ELSE recent_transcriptions = last.pre.recent

\* C9: stop_translation_process called in a running session returns with the
\* accumulator reset, whether or not stopping the audio input raised.
C9_StopAlwaysResets == WasStop => IsReset

\* C10: an on_transcription call whose merged buffer is complete by terminal
\* punctuation but, ellipsis-stripped, has fewer than 20 characters emits
\* nothing, leaves recent_transcriptions unchanged and resets the accumulator.
C10_TooShortDiscard ==
    (/\ WasMerge
     /\ EndsInTerminal(StripEllipsis(Strip(MergedByLast)))
     /\ Len(StripEllipsis(Strip(MergedByLast))) < MinEmitLength)
    => (/\ last.out = <<>>
        /\ recent_transcriptions = last.pre.recent
        /\ IsReset)

\* C10 witness: a short sentence ending in a full stop was discarded.
C10_Witness ==
    /\ WasMerge
    /\ EndsInTerminal(StripEllipsis(Strip(MergedByLast)))
    /\ Len(StripEllipsis(Strip(MergedByLast))) < MinEmitLength
    /\ last.out = <<>>
    /\ IsReset

\* the last operation left the accumulator, the history and the translation
\* stage alone
WasNoOp ==
    /\ BufferUntouched
    /\ recent_transcriptions = last.pre.recent
    /\ last.out = <<>>

\* C12: an on_transcription call whose trimmed, ellipsis-stripped text equals
\* the trimmed buffer case-insensitively leaves sentence_buffer,
\* buffer_start_time, last_fragment_time and recent_transcriptions unchanged
\* and emits nothing.
C12_ExactDuplicateNoOp ==
    (/\ WasOnTranscription
     /\ Lower(StripEllipsis(Strip(last.text))) = Lower(Strip(last.pre.buffer)))
    => WasNoOp

\* C12 witness: the buffered text arrived again in another letter case and
\* was ignored.
C12_Witness ==
    /\ WasOnTranscription
    /\ last.pre.buffer # <<>>
    /\ StripEllipsis(Strip(last.text)) # Strip(last.pre.buffer)
    /\ Lower(StripEllipsis(Strip(last.text))) = Lower(Strip(last.pre.buffer))
    /\ WasNoOp

\* text is empty, whitespace, or nothing but occurrences of "..." and "...."
IsEllipsisOnly(text) ==
    LET t == Strip(text)
    IN  /\ \A i \in 1..Len(t) : t[i] = "."
        /\ Len(t) \notin {1, 2, 5}

\* C13: an on_transcription call whose text is empty, whitespace-only or
\* consists only of ellipsis occurrences ("..." or "....", possibly repeated)
\* leaves the buffer, both timestamps and the history unchanged and emits
\* nothing.
C13_EllipsisOnlyNoOp ==
    (WasOnTranscription /\ IsEllipsisOnly(last.text)) => WasNoOp

\* the sentences on_transcription handed to process_translation, in order
Completions == SelectSeq(emit_log, LAMBDA e : e.by = "completion")

\* C11: recent_transcriptions never holds more than 10 entries, every entry
\* is lower-case, and the entries are the last (at most 10) sentences that
\* on_transcription emitted, lower-cased, in the order of their emission: the
\* eleventh emission evicts the oldest entry.
C11_HistoryBound ==
    LET n == Len(Completions)
        k == IF n <= 10 THEN n ELSE 10
    IN  /\ Len(recent_transcriptions) <= 10
        /\ \A i \in 1..Len(recent_transcriptions) :
               \A j \in 1..Len(recent_transcriptions[i]) :
                   recent_transcriptions[i][j] \notin
                       {UpperChars[c] : c \in 1..Len(UpperChars)}
        /\ Len(recent_transcriptions) = k
        /\ \A i \in 1..k :
               recent_transcriptions[i] = Lower(Completions[n - k + i].text)

\* C11 witness: the eleventh sentence was emitted; the history holds 10
\* entries, the first emission is gone and the second, a different text, is
\* now the oldest entry.
C11_Witness ==
    /\ Len(Completions) = 11
    /\ Len(recent_transcriptions) = 10
    /\ Completions[1].text # Completions[2].text
    /\ recent_transcriptions[1] = Lower(Completions[2].text)
    /\ recent_transcriptions[10] = Lower(Completions[11].text)
    /\ recent_transcriptions[10] # Completions[11].text

\* C15: start_translation_process and stop_translation_process leave
\* recent_transcriptions as they found it.
C15_StopRetainsHistory ==
    last.op \in {"start", "stop"} => recent_transcriptions = last.pre.recent

\* C15 witness: a running session with sentences in the history and text in
\* the buffer was stopped; the buffer is cleared and the history is intact.
C15_Witness ==
    /\ WasStop
    /\ ~last.failed
    /\ last.pre.buffer # <<>>
    /\ Len(last.pre.recent) >= 2
    /\ IsReset
    /\ recent_transcriptions = last.pre.recent

\* ------------------------------------------------------------------------
\* Properties of the two applications
\* ------------------------------------------------------------------------

\* C17: two applications that start with the same buffer and timestamps but
\* different histories and receive the same on_transcription and stop calls
\* hold the same buffer and timestamps after every call, and every call hands
\* the same sentences to process_translation in both.
C17_HistoryBlind ==
    /\ twin.buffer = sentence_buffer
    /\ twin.start = buffer_start_time
    /\ twin.lastfrag = last_fragment_time
    /\ last.op \in {"on_transcription", "stop"} => twin.out = last.out

\* C17 witness: the second application emitted the sentence that was already
\* in its history: it is now there twice.
C17_Witness ==
    /\ WasOnTranscription
    /\ Len(last.out) = 1
    /\ twin.out = last.out
    /\ recent_transcriptions = <<Lower(last.out[1])>>
    /\ twin.recent = <<Lower(last.out[1]), Lower(last.out[1])>>

\* ------------------------------------------------------------------------
\* Properties of the text functions
\* ------------------------------------------------------------------------

\* the length of the run of full stops that text ends in
RECURSIVE TrailingDots(_)
TrailingDots(text) ==
    IF Len(text) > 0 /\ text[Len(text)] = "."
    THEN 1 + TrailingDots(SubSeq(text, 1, Len(text) - 1))
    ELSE 0

\* text without the ellipsis runs (3 or more full stops) it ends in
RECURSIVE WithoutEllipsisRuns(_)
WithoutEllipsisRuns(text) ==
    LET t == Strip(text)
        n == TrailingDots(t)
    IN  IF n >= 3 THEN WithoutEllipsisRuns(SubSeq(t, 1, Len(t) - n)) ELSE t

\* C14: _is_sentence_complete returns false for every text that ends in a
\* run of 3 or more full stops, and returns true only when the text without
\* its trailing ellipsis runs is non-empty and ends in one of . ! ? ;
C14_EllipsisNotComplete ==
    call.fn = "_is_sentence_complete" =>
        /\ TrailingDots(Strip(call.args[1])) >= 3 => call.result = FALSE
        /\ call.result = TRUE => EndsInTerminal(WithoutEllipsisRuns(call.args[1]))

\* C16: _is_duplicate(text) returns true iff some entry of
\* recent_transcriptions has a word-set similarity with text of at least 0.7
\* (7/10), and the call changes neither the buffer, nor the timestamps, nor
\* the history.
C16_IsDuplicateQuery ==
    call.fn = "_is_duplicate" =>
        /\ call.result =
              (\E i \in 1..Len(call.pre.recent) :
                  LET r == CalculateSimilarity(call.args[1], call.pre.recent[i])
                  IN  10 * r[1] >= 7 * r[2])
        /\ Snapshot = call.pre

\* C16 witness: _is_duplicate answered true for a text whose similarity with
\* the only matching entry, the second of the history, is exactly 7/10.
C16_Witness ==
    /\ call.fn = "_is_duplicate"
    /\ call.result = TRUE
    /\ Len(recent_transcriptions) = 2
    /\ CalculateSimilarity(call.args[1], recent_transcriptions[1])[1] = 0
    /\ CalculateSimilarity(call.args[1], recent_transcriptions[2]) = <<7, 10>>

\* C18 as stated: 0 <= _calculate_similarity(a, b) <= 1; the similarity of a
\* non-empty a with itself is 1; the similarity of "" with anything is 0.
C18_SimilarityBounds ==
    call.fn = "_calculate_similarity" =>
        LET a == call.args[1]
            b == call.args[2]
            r == call.result
        IN  /\ r[2] > 0 /\ 0 <= r[1] /\ r[1] <= r[2]
            /\ (a = b /\ a # <<>>) => r[1] = r[2]
            /\ a = <<>> => r[1] = 0

\* C18 amended: 0 <= _calculate_similarity(a, b) <= 1; the similarity of a
\* with itself is 1 when a holds a character that is not whitespace and 0
\* when it does not; the similarity of "" with anything is 0.
C18_SimilarityBoundsTrimmed ==
    call.fn = "_calculate_similarity" =>
        LET a == call.args[1]
            b == call.args[2]
            r == call.result
            blank == \A i \in 1..Len(a) : a[i] = " "
        IN  /\ r[2] > 0 /\ 0 <= r[1] /\ r[1] <= r[2]
            /\ (a = b /\ ~blank) => r[1] = r[2]
            /\ (a = b /\ blank) => r[1] = 0
            /\ a = <<>> => r[1] = 0

\* C18 witness: a text that repeats a word was compared with itself and the
\* similarity is 1.
C18_Witness ==
    /\ call.fn = "_calculate_similarity"
    /\ call.args[1] = call.args[2]
    /\ Len(Split(call.args[1])) > Cardinality(WordSet(Split(call.args[1])))
    /\ call.result[1] = call.result[2]

\* C19: _clean_word_loops applied to what _clean_word_loops returned returns
\* its argument.
C19_CleanIdempotent ==
    (call.fn = "_clean_word_loops" /\ call.again) => call.result = call.args[1]

\* the first word of the maximal run of equal words that words[k] is in
RunFirst(words, k) ==
    CHOOSE j \in 1..k :
        /\ \A m \in j..k : WordKey(words[m]) = WordKey(words[k])
        /\ j = 1 \/ WordKey(words[j - 1]) # WordKey(words[k])

\* the last word of the maximal run of equal words that words[k] is in
RunLast(words, k) ==
    CHOOSE j \in k..Len(words) :
        /\ \A m \in k..j : WordKey(words[m]) = WordKey(words[k])
        /\ j = Len(words) \/ WordKey(words[j + 1]) # WordKey(words[k])

\* the positions the policy keeps: the first word of every run, and the
\* second word of a run of 3 or more
KeptPositions(words) ==
    {k \in 1..Len(words) :
        \/ k = RunFirst(words, k)
        \/ /\ k = RunFirst(words, k) + 1
           /\ RunLast(words, k) - RunFirst(words, k) + 1 >= 3}

\* the words at the kept positions, in order
KeptWords(words) ==
    LET kept == KeptPositions(words)
    IN  [n \in 1..Cardinality(kept) |->
            words[CHOOSE k \in kept : Cardinality({j \in kept : j <= k}) = n]]

\* C20: for a text of at least 3 words _clean_word_loops returns the words
\* joined by single spaces, each maximal run of words that are equal after
\* lower-casing and stripping trailing ,.!?;: replaced by its first two words
\* if it has 3 or more, by its first word if it has 2; a text of fewer than 3
\* words is returned unchanged.
C20_LoopCollapsePolicy ==
    call.fn = "_clean_word_loops" =>
        call.result =
            IF Len(Split(call.args[1])) < 3 THEN call.args[1]
            ELSE Join(KeptWords(Split(call.args[1])))

\* C20 witness: a run of four equal words in a text of five words was
\* replaced by its first two.
C20_Witness ==
    /\ call.fn = "_clean_word_loops"
    /\ ~call.again
    /\ Len(Split(call.args[1])) = 5
    /\ RunLast(Split(call.args[1]), 1) = 4
    /\ Split(call.result) =
          <<Split(call.args[1])[1], Split(call.args[1])[2], Split(call.args[1])[5]>>

\* the largest k such that the last k words of buffer_words are the first
\* k words of fragment_words
LargestOverlap(buffer_words, fragment_words) ==
    LET n == IF Len(buffer_words) < Len(fragment_words)
             THEN Len(buffer_words) ELSE Len(fragment_words)
        hits == {k \in 0..n :
                    \A i \in 1..k :
                        buffer_words[Len(buffer_words) - k + i] = fragment_words[i]}
    IN  CHOOSE k \in hits : \A j \in hits : j <= k

\* the last call was _merge_fragments with a non-empty buffer and a fragment
\* that, loop-cleaned, has a similarity with it of at most 0.8
WasPlainMerge ==
    /\ call.fn = "_merge_fragments"
    /\ call.args[1] # <<>>
    /\ LET r == CalculateSimilarity(call.args[1], CleanWordLoops(call.args[2]))
       IN  10 * r[1] <= 8 * r[2]

\* C21 as stated: with an empty buffer _merge_fragments returns the
\* loop-cleaned fragment; with a non-empty buffer and a similarity of at most
\* 0.8 it returns strip(cleanLoops(buffer + " " + join(F[k:]))), F the words
\* of the loop-cleaned fragment and k the largest overlap, 0 included.
C21_LongestOverlap ==
    /\ (call.fn = "_merge_fragments" /\ call.args[1] = <<>>)
          => call.result = CleanWordLoops(call.args[2])
    /\ WasPlainMerge =>
          LET F == Split(CleanWordLoops(call.args[2]))
              k == LargestOverlap(Split(call.args[1]), F)
          IN  call.result =
                Strip(CleanWordLoops(call.args[1] \o <<" ">> \o Join(DropFirst(F, k))))

\* C21 amended: the same, except that without any overlap (k = 0) the
\* loop-cleaned fragment itself is appended, with the whitespace it has,
\* instead of its words joined by single spaces.
C21_LongestOverlapOrFragment ==
    /\ (call.fn = "_merge_fragments" /\ call.args[1] = <<>>)
          => call.result = CleanWordLoops(call.args[2])
    /\ WasPlainMerge =>
          LET F == Split(CleanWordLoops(call.args[2]))
              k == LargestOverlap(Split(call.args[1]), F)
              rest == IF k = 0 THEN CleanWordLoops(call.args[2])
                      ELSE Join(DropFirst(F, k))
          IN  call.result = Strip(CleanWordLoops(call.args[1] \o <<" ">> \o rest))

\* C21 witness: the buffer ends in three words that the fragment starts
\* with, and also in one; the three were removed.
C21_Witness ==
    /\ WasPlainMerge
    /\ LargestOverlap(Split(call.args[1]), Split(call.args[2])) = 3
    /\ Split(call.args[1])[Len(Split(call.args[1]))] = Split(call.args[2])[1]
    /\ Len(Split(call.result)) = Len(Split(call.args[1])) + Len(Split(call.args[2])) - 3

\* C22: with a non-empty buffer and a similarity between the buffer and the
\* loop-cleaned fragment above 0.8, _merge_fragments returns the one of the
\* two that has more characters, as it is.
C22_NearRestatement ==
    (/\ call.fn = "_merge_fragments"
     /\ call.args[1] # <<>>
     /\ LET r == CalculateSimilarity(call.args[1], CleanWordLoops(call.args[2]))
        IN  10 * r[1] > 8 * r[2])
    => /\ call.result \in {call.args[1], CleanWordLoops(call.args[2])}
       /\ Len(call.result) >= Len(call.args[1])
       /\ Len(call.result) >= Len(CleanWordLoops(call.args[2]))

\* C22 witness: the buffer, longer than a fragment that shares 6 of its 7
\* words, was returned.
C22_Witness ==
    /\ call.fn = "_merge_fragments"
    /\ CalculateSimilarity(call.args[1], CleanWordLoops(call.args[2])) = <<6, 7>>
    /\ Len(call.args[1]) > Len(call.args[2])
    /\ call.result = call.args[1]

\* the last call was merge("hello world today", "hello world todai")
WasHelloMerge ==
    /\ call.fn = "_merge_fragments"
    /\ call.args = <<TextHelloToday, TextHelloTodai>>

\* C23 as stated: merge("hello world today", "hello world todai") has a
\* similarity above 0.8 and returns one of its two arguments.
C23_HelloIsRestatement ==
    WasHelloMerge =>
        /\ LET r == CalculateSimilarity(call.args[1], call.args[2])
           IN  10 * r[1] > 8 * r[2]
        /\ call.result \in {call.args[1], call.args[2]}

\* C23 amended: merge("hello world today", "hello world todai") has a
\* similarity of 2/4, which is not above 0.8, and returns the concatenation
\* "hello world today hello world todai".
C23_HelloIsConcatenated ==
    WasHelloMerge =>
        /\ CalculateSimilarity(call.args[1], call.args[2]) = <<2, 4>>
        /\ call.result = TextHelloToday \o <<" ">> \o TextHelloTodai

\* C23 witness: that call was made and returned a text longer than both
\* arguments.
C23_Witness ==
    /\ WasHelloMerge
    /\ Len(call.result) > Len(call.args[1])
    /\ Len(call.result) > Len(call.args[2])

\* the last call was one of the mixer and returned an array
MixerCallReturned(fn) == call.fn = fn /\ call.result.raised = ""

\* sample i of an argument of the last call, 0 past its end
ArgumentAt(samples, i) == IF i \in 1..Len(samples) THEN samples[i] ELSE 0

\* the exact sum, in hundredths, that the last mix_audio_arrays call formed
\* at index i
SummedAt(i) ==
    ArgumentAt(call.args[1], i) * call.pre.original_volume
    + ArgumentAt(call.args[2], i) * call.pre.translation_volume

\* the largest magnitude of those sums
SummedPeak ==
    LET longest == IF Len(call.args[1]) > Len(call.args[2])
                   THEN Len(call.args[1]) ELSE Len(call.args[2])
        magnitudes == {Abs(SummedAt(i)) : i \in 1..longest} \cup {0}
    IN  CHOOSE m \in magnitudes : \A other \in magnitudes : other <= m

\* C24: every sample that mix_audio_arrays returns has a magnitude of at most
\* 32767, and when the largest summed magnitude exceeds 32767 every sample is
\* its sum times 32767 / peak, cut off to a whole number (within one of it,
\* with the sign of the sum), not clipped and not wrapped.
C24_ClippingSafety ==
    MixerCallReturned("mix_audio_arrays") =>
        \A peak \in {SummedPeak} :
        \A i \in 1..call.result.array.size :
        \A out \in {SampleAt(call.result.array, i)} :
            /\ Abs(out) <= Int16Max
            /\ peak > Int16Max * 100 =>
                  \A scaled \in {TimesOver(Abs(SummedAt(i)), Int16Max, peak)} :
                      /\ Abs(out) \in (scaled[1] - 1)..(scaled[1] + 1)
                      /\ SummedAt(i) >= 0 => out >= 0
                      /\ SummedAt(i) <= 0 => out <= 0

\* C24 witness: a sum beyond 32767 was scaled to 32767 and another sample,
\* itself within the int16 range, was scaled down with it.
C24_Witness ==
    /\ MixerCallReturned("mix_audio_arrays")
    /\ SummedPeak > Int16Max * 100
    /\ \E i \in 1..call.result.array.size :
          /\ Abs(SummedAt(i)) = SummedPeak
          /\ Abs(SampleAt(call.result.array, i)) = Int16Max
    /\ \E i \in 1..call.result.array.size :
          /\ Abs(SummedAt(i)) <= Int16Max * 100
          /\ Abs(SummedAt(i)) >= 200
          /\ 100 * Abs(SampleAt(call.result.array, i)) < Abs(SummedAt(i)) - 100

\* C25: mix_audio_arrays returns max(len(original), len(translation))
\* samples, and past the end of the shorter argument a sample is the longer
\* argument's sample times its volume (times 32767 / peak when normalized).
C25_LengthHandling ==
    call.fn = "mix_audio_arrays" =>
        /\ call.result.raised = ""
        /\ call.result.array.size =
              (IF Len(call.args[1]) > Len(call.args[2])
               THEN Len(call.args[1]) ELSE Len(call.args[2]))
        /\ \A peak \in {SummedPeak} :
           \A i \in 1..call.result.array.size :
              /\ i > Len(call.args[2]) =>
                    SampleAt(call.result.array, i) \in
                        Int16Values(ScaledSample(call.args[1][i],
                                                 call.pre.original_volume), peak)
              /\ i > Len(call.args[1]) =>
                    SampleAt(call.result.array, i) \in
                        Int16Values(ScaledSample(call.args[2][i],
                                                 call.pre.translation_volume), peak)

\* delay_ms * sample_rate / 1000, truncated
WholeDelaySamples(delay_ms, sample_rate) == (delay_ms * sample_rate) \div 1000

\* C26: overlay_translation returns max(len(original), delaySamples +
\* len(translation)) samples, delaySamples being delay_ms * sample_rate / 1000
\* truncated; the original lies at the indices from 0, the translation at the
\* indices from delaySamples, and every other sample is zero.
C26_DelayedOverlay ==
    MixerCallReturned("overlay_translation") =>
        \A delay \in {WholeDelaySamples(call.args[3], call.pre.sample_rate)} :
            /\ call.result.array.size =
                  (IF Len(call.args[1]) > delay + Len(call.args[2])
                   THEN Len(call.args[1]) ELSE delay + Len(call.args[2]))
            /\ \A i \in DOMAIN call.result.array.at :
                  \/ i \in 1..Len(call.args[1])
                  \/ i \in (delay + 1)..(delay + Len(call.args[2]))
                  \/ call.result.array.at[i] = 0

\* C27: both volumes lie between 0.0 and 1.0; set_volumes stores an argument
\* below 0.0 as 0.0, one above 1.0 as 1.0, one in between as it is, and leaves
\* a volume whose argument is None as it was.
C27_VolumesClamped ==
    /\ mixer.original_volume \in 0..100
    /\ mixer.translation_volume \in 0..100
    /\ call.fn = "set_volumes" =>
          \A v \in {<<call.args[1], call.pre.original_volume, mixer.original_volume>>,
                    <<call.args[2], call.pre.translation_volume,
                      mixer.translation_volume>>} :
              /\ v[1] = None => v[3] = v[2]
              /\ (v[1] # None /\ v[1][1] < 0) => v[3] = 0
              /\ (v[1] # None /\ v[1][1] > 100) => v[3] = 100
              /\ (v[1] # None /\ v[1][1] \in 0..100) => v[3] = v[1][1]

\* C27 witness: set_volumes(1.5, None) on a mixer whose translation volume
\* had been set to 0.5 stored 1.0 and left the 0.5.
C27_Witness ==
    /\ call.fn = "set_volumes"
    /\ call.args = <<Some(150), None>>
    /\ call.pre.translation_volume = 50
    /\ call.pre.original_volume < 100
    /\ mixer.original_volume = 100
    /\ mixer.translation_volume = 50

\* C31: mix_audio_arrays and overlay_translation return an array, whatever
\* the lengths of their arguments, also when both are empty.
C31_MixingNeverFails ==
    call.fn \in {"mix_audio_arrays", "overlay_translation"} =>
        call.result.raised = ""

\* what a call can end in, given the float array it formed
OutcomesOf(mixed) ==
    IF mixed.size = 0 THEN {Raised("ValueError")}
    ELSE {ReturnedArray(array) : array \in Int16Arrays(mixed, MaxVal(mixed))}

\* C37: with the same configuration, whatever overlay_translation(original,
\* translation, 0) ends in, mix_audio_arrays(original, translation) can end
\* in, and the other way round.
C37_OverlayZeroIsMix ==
    /\ (call.fn = "overlay_translation" /\ call.args[3] = 0) =>
          call.result \in
              OutcomesOf(MixedSamples(call.args[1], call.args[2], call.pre))
    /\ call.fn = "mix_audio_arrays" =>
          /\ DelaySamples(0, call.pre.sample_rate) = 0
          /\ call.result \in
                OutcomesOf(OverlaidSamples(call.args[1], call.args[2], 0, call.pre))

\* C37 witness: overlay_translation without delay mixed an original of 3
\* samples with a translation of 4 at full volumes.
C37_Witness ==
    /\ MixerCallReturned("overlay_translation")
    /\ call.args[3] = 0
    /\ Len(call.args[1]) = 3
    /\ Len(call.args[2]) = 4
    /\ call.result.array.size = 4
    /\ call.pre.original_volume = 100
    /\ call.pre.translation_volume = 100
    /\ SampleAt(call.result.array, 1) = 0
    /\ SampleAt(call.result.array, 3) = 20
    /\ SampleAt(call.result.array, 4) = 7

\* C29: an on_transcription call that merges a fragment yields a non-empty
\* buffer. If it returns without emitting or discarding, last_fragment_time
\* is the call's time and buffer_start_time is the call's time when the
\* buffer was empty before and unchanged when it was not. A call that found
\* the buffer empty, whose timer therefore started at its own time, ends a
\* sentence only by punctuation, never by timeout.
C29_FirstFragmentStartsTimer ==
    WasMerge =>
        /\ MergedByLast # <<>>
        /\ sentence_buffer # <<>> =>
              /\ sentence_buffer = MergedByLast
              /\ last_fragment_time = Some(last.now)
              /\ buffer_start_time =
                    (IF last.pre.buffer = <<>> THEN Some(last.now) ELSE last.pre.start)
        /\ (last.pre.buffer = <<>> /\ sentence_buffer = <<>>) =>
              IsSentenceComplete(MergedByLast)

\* C29 witness: a fragment was merged into a buffer that an earlier call had
\* started; the start time is still that of the earlier call and the last
\* fragment time is that of this call.
C29_Witness ==
    /\ WasMerge
    /\ last.pre.buffer # <<>>
    /\ sentence_buffer = MergedByLast
    /\ last.pre.start # None
    /\ buffer_start_time = last.pre.start
    /\ last.pre.start[1] < last.now
    /\ last_fragment_time = Some(last.now)
    /\ last.pre.lastfrag # last_fragment_time

\* ------------------------------------------------------------------------
\* Properties of the two threads
\* ------------------------------------------------------------------------

\* neither on_transcription nor stop_translation_process is in progress
AtRest == stt_thread.pc = "idle" /\ ui_thread.pc = "idle"

\* C2: the steps of on_transcription (STT thread) and stop_translation_process
\* (UI thread) are serialized, so whenever neither call is in progress
\* sentence_buffer is empty iff buffer_start_time is None iff
\* last_fragment_time is None.
C2_SerializedInvariant ==
    AtRest =>
        /\ (sentence_buffer = <<>>) <=> (buffer_start_time = None)
        /\ (buffer_start_time = None) <=> (last_fragment_time = None)

\* C3: no buffer content is handed to process_translation more than once,
\* whether by the completion path, by the stop-time flush, or by both.
C3_AtMostOnce ==
    \A i \in 1..Len(emit_log) : \A j \in 1..Len(emit_log) :
        i # j => emit_log[i].version # emit_log[j].version

\* ------------------------------------------------------------------------
\* Properties of the translation workers and the TTS queue
\* ------------------------------------------------------------------------

\* the step hands a sentence to process_translation
Dispatches == Len(emit_log') = Len(emit_log) + 1

\* the step that hands a sentence over leaves a new thread that has not begun
\* to translate, leaves every other thread where it was, and leaves the
\* accumulator reset
DispatchedAndReset ==
    /\ sentence_buffer' = <<>>
    /\ buffer_start_time' = None
    /\ last_fragment_time' = None
    /\ workers.handler =>
        /\ Len(workers'.threads) = Len(workers.threads) + 1
        /\ workers'.threads[Len(workers'.threads)].pc = "translate"
        /\ workers'.threads[Len(workers'.threads)].original_text =
               emit_log'[Len(emit_log')].text
        /\ \A i \in DOMAIN workers.threads :
               workers'.threads[i] = workers.threads[i]

\* C28: on_transcription hands a completed sentence to a new thread, resets
\* the buffer and returns without waiting for any thread; and whatever the
\* translation threads do, even if none of them ever finishes, later calls
\* keep merging fragments and emitting sentences.
C28_FireAndForget ==
    /\ [][Dispatches => DispatchedAndReset]_vars
    /\ \A n \in 0..(MaxDispatched - 1) :
           (Len(emit_log) = n) ~> (Len(emit_log) = n + 1 /\ IsReset)

\* C28 witness: the second sentence, merged from two fragments, was handed
\* over while the thread of the first was still in the translation.
C28_Witness ==
    /\ Len(emit_log) = 2
    /\ emit_log[2].text = SentenceWalkedHome
    /\ WasOnTranscription
    /\ last.text = FragHome
    /\ last.pre.buffer = FragWalked
    /\ IsReset
    /\ Len(workers.threads) = 2
    /\ workers.threads[1].pc = "translate"
    /\ workers.threads[2].pc = "translate"

\* C30: tts_queue never holds more than one text, also when several
\* translation threads are inside speak_text at the same time.
C30_QueueAtMostOne == Len(tts.tts_queue) <= 1

\* thread i has posted its translation to the UI and the subtitles and has
\* reached the hand-over to speak_text
HasDelivered(i) == workers.threads[i].pc # "translate"

\* C34: translations are delivered in emission order: the thread of a
\* sentence has posted its translation and reached speak_text only if the
\* thread of every sentence emitted before it has
C34_EmissionOrder ==
    \A i, j \in DOMAIN workers.threads :
        (i < j /\ HasDelivered(j)) => HasDelivered(i)

\* C36: the history of spoken texts records only queued texts: a speak_text
\* call that has returned has appended its text to _recent_texts only if it
\* has put the text on tts_queue; and _recent_texts holds at most 5 entries
C36_HistoryOnlyQueued ==
    /\ \A i \in DOMAIN workers.threads :
            (workers.threads[i].pc = "done" /\ workers.threads[i].remembered)
                => workers.threads[i].queued
    /\ Len(tts.recent_texts) <= 5

\* ------------------------------------------------------------------------
\* Further properties of the accumulator
\* ------------------------------------------------------------------------

\* C32: between sequentially executed calls the buffer is empty or is not a
\* complete sentence.
C32_RestingBufferIncomplete ==
    sentence_buffer = <<>> \/ ~IsSentenceComplete(sentence_buffer)

\* C32 witness: on_transcription returned and left a buffer that ends in an
\* ellipsis.
C32_Witness ==
    /\ WasOnTranscription
    /\ sentence_buffer # <<>>
    /\ EndsWith(sentence_buffer, Ellipsis3)
    /\ ~IsSentenceComplete(sentence_buffer)

\* stop_translation_process has returned and start_translation_process has
\* not been called since
Stopped == ~is_translating /\ ui_thread.pc = "idle"

\* C33: while the session is stopped, process_translation is not invoked and
\* an empty sentence_buffer stays empty, whatever the STT processing thread
\* still delivers.
C33_QuietAfterStop ==
    [][(Stopped /\ Stopped') =>
          /\ emit_log' = emit_log
          /\ sentence_buffer = <<>> => sentence_buffer' = <<>>]_vars

\* ------------------------------------------------------------------------
\* Further properties of the text functions
\* ------------------------------------------------------------------------

\* words[k], words[k + 1] and words[k + 2] are equal after lower-casing and
\* stripping trailing punctuation
IsLoopAt(words, k) ==
    /\ WordKey(words[k]) = WordKey(words[k + 1])
    /\ WordKey(words[k]) = WordKey(words[k + 2])

\* C35: what _clean_word_loops returns has no 3 consecutive words that are
\* equal after lower-casing and stripping trailing ,.!?;: and has no more
\* words than the text it was called with.
C35_NoLongLoops ==
    call.fn = "_clean_word_loops" =>
        \A out \in {Split(call.result)} :
            /\ Len(out) <= Len(Split(call.args[1]))
            /\ \A k \in 1..(Len(out) - 2) : ~IsLoopAt(out, k)

\* C35 witness: a text with 3 consecutive equal words, spelled differently,
\* came back at least one word shorter.
C35_Witness ==
    /\ call.fn = "_clean_word_loops"
    /\ ~call.again
    /\ Len(Split(call.result)) < Len(Split(call.args[1]))
    /\ \E k \in 1..(Len(Split(call.args[1])) - 2) :
          /\ IsLoopAt(Split(call.args[1]), k)
          /\ Split(call.args[1])[k] # Split(call.args[1])[k + 1]

\* C39: in _merge_fragments the second scan leaves overlap_length as the
\* first scan computed it, and with overlap_length = 0 the last word of the
\* buffer never equals the first word of the fragment.
C39_SecondScanIsIdle ==
    (call.fn = "_merge_fragments" /\ call.args[1] # <<>>) =>
        \A buffer_words \in {Split(call.args[1])} :
        \A fragment_words \in {Split(CleanWordLoops(call.args[2]))} :
        \A overlap_length \in {OverlapFirstScan(buffer_words, fragment_words)} :
            /\ OverlapSecondScan(buffer_words, fragment_words, overlap_length)
                   = overlap_length
            /\ ~ /\ overlap_length = 0
                 /\ Len(buffer_words) > 0
                 /\ Len(fragment_words) > 0
                 /\ buffer_words[Len(buffer_words)] = fragment_words[1]

\* C39 witness: the fragment overlaps the buffer by 1 word and by 3 words,
\* so the second scan stops at 1 after the first scan ended at 3.
C39_Witness ==
    /\ call.fn = "_merge_fragments"
    /\ call.args[1] # <<>>
    /\ OverlapAt(Split(call.args[1]), Split(CleanWordLoops(call.args[2])), 1)
    /\ OverlapAt(Split(call.args[1]), Split(CleanWordLoops(call.args[2])), 3)
    /\ OverlapFirstScan(Split(call.args[1]), Split(CleanWordLoops(call.args[2]))) = 3
    /\ Len(Split(call.result)) = Len(Split(call.args[1])) + 1

\* ------------------------------------------------------------------------
\* Properties of the audio buffer and of the metrics
\* ------------------------------------------------------------------------

\* C38: every window _processing_loop hands to _transcribe holds exactly
\* required_samples samples, and the buffer the loop leaves behind starts
\* with the last half of that window
C38_FullWindows ==
    fast_stt.loop.pc = "transcribe" =>
        /\ BufferLen(fast_stt.window) = RequiredSamples
        /\ fast_stt.retained.from = fast_stt.window.to - RequiredSamples \div 2
        /\ fast_stt.retained.to >= fast_stt.window.to

\* C40: the counters a caller of get_summary is handed are consistent:
\* total_runs = successful_runs + failed_runs and successful_runs <= total_runs
C40_CountersConsistent ==
    metrics.summary.pc = "returned" =>
        /\ metrics.summary.total_runs =
               metrics.summary.successful_runs + metrics.summary.failed_runs
        /\ metrics.summary.successful_runs <= metrics.summary.total_runs

====
